---- MODULE Spec2Model ----
(***************************************************************************)
(* Model of the IRT-based computer adaptive testing engine of              *)
(* services/app/ai_services/adaptive_assessment.py:                        *)
(*   ItemResponseTheory, QuestionItem and AdaptiveAssessmentEngine.        *)
(*                                                                         *)
(* Python floats are represented in fixed point: the integer x stands for  *)
(* the real x / Scale.  math.exp and math.sqrt are computed in that        *)
(* representation (series / integer root), truncating toward zero.         *)
(***************************************************************************)
EXTENDS Integers, Sequences, FiniteSets, TLC

\* ------------------------------------------------------------------------
\* Fixed-point arithmetic standing for Python float arithmetic
\* ------------------------------------------------------------------------

\* one unit of the fixed-point representation is 1/Scale
Scale == 10000

Abs(x) == IF x < 0 THEN 0 - x ELSE x

Sign(x) == IF x < 0 THEN 0 - 1 ELSE 1

\* the largest operand whose square is a machine integer
MaxFactor == 46340

\* product of two non-negative floats; large operands are split so that no
\* intermediate product leaves the machine integer range
MulAbs(ax, ay) ==
    IF ax <= MaxFactor /\ ay <= MaxFactor THEN (ax * ay) \div Scale
    ELSE (ax \div Scale) * (ay \div Scale) * Scale + (ax \div Scale) * (ay % Scale)
         + (ax % Scale) * (ay \div Scale) + ((ax % Scale) * (ay % Scale)) \div Scale

\* float product x * y
MulS(x, y) == (Sign(x) * Sign(y)) * MulAbs(Abs(x), Abs(y))

\* quotient of two non-negative floats (ay # 0)
DivAbs(ax, ay) == (ax \div ay) * Scale + ((ax % ay) * Scale) \div ay

\* float quotient x / y  (y # 0)
DivS(x, y) == (Sign(x) * Sign(y)) * DivAbs(Abs(x), Abs(y))

\* e^n for the integers n = 1 .. 11, in fixed point
EPow == <<27183, 73891, 200855, 545982, 1484132, 4034288, 10966332,
          29809580, 81030839, 220264658, 598741417>>

EInt(n) == IF n = 0 THEN Scale ELSE EPow[n]

\* the number of terms of the exponential series that are summed
ExpTerms == 12

\* the sum of the terms k - 1 .. ExpTerms of the exponential series of f,
\* 0 <= f < Scale, where `term` is the term k - 1
RECURSIVE ExpSeries(_, _, _)
ExpSeries(f, k, term) ==
    IF k > ExpTerms + 1 \/ term = 0 THEN 0
    ELSE term + ExpSeries(f, k + 1, (term * f) \div (k * Scale))

\* exponents from which 1 / (1 + math.exp(x)) is below one unit
ExpCut == 12 * Scale

\* math.exp(x) for 0 <= x < ExpCut
ExpFix(x) == MulS(EInt(x \div Scale), ExpSeries(x % Scale, 1, Scale))

\* math.exp raises OverflowError above ln(max double) = 709.78...
ExpOverflow == 7097827

\* 1 / (1 + math.exp(e)) when math.exp does not overflow
Logistic(e) ==
    IF e >= ExpCut THEN 0
    ELSE IF e >= 0 THEN (Scale * Scale) \div (Scale + ExpFix(e))
    ELSE IF e <= 0 - ExpCut THEN Scale
    ELSE Scale - (Scale * Scale) \div (Scale + ExpFix(0 - e))

\* bisection for the integer square root of v in lo .. hi
RECURSIVE SqrtSearch(_, _, _)
SqrtSearch(v, lo, hi) ==
    IF lo >= hi THEN lo
    ELSE IF ((lo + hi + 1) \div 2) * ((lo + hi + 1) \div 2) <= v
    THEN SqrtSearch(v, (lo + hi + 1) \div 2, hi)
    ELSE SqrtSearch(v, lo, (lo + hi + 1) \div 2 - 1)

\* math.sqrt(x), x >= 0 : the largest r with r * r <= x * Scale
SqrtS(x) == SqrtSearch(x * Scale, 0, MaxFactor)

\* ------------------------------------------------------------------------
\* ItemResponseTheory
\* ------------------------------------------------------------------------

\* 0.001, the tolerance used by the estimator
Eps == Scale \div 1000

\* the value of probability_correct when math.exp overflows
OverflowP == Scale \div 2

\* guessing + (1 - guessing) / (1 + math.exp(exponent)), and the except branch
ProbabilityAt(exponent, guessing) ==
    IF exponent > ExpOverflow THEN OverflowP
    ELSE guessing + MulS(Scale - guessing, Logistic(exponent))

\* probability_correct(ability, difficulty, discrimination, guessing)
probability_correct(ability, difficulty, discrimination, guessing) ==
    ProbabilityAt(MulS(0 - discrimination, ability - difficulty), guessing)

\* (derivative_p ** 2) / (p * q), evaluated without rounding the square:
\* derivative_p * derivative_p is in units of 1/Scale^2 and pq in units of
\* 1/Scale, so their integer quotient is the information in units of 1/Scale;
\* a division by zero goes to the except branch and yields 0.0
InformationQuotient(derivative_p, pq) ==
    IF pq = 0 THEN 0 ELSE (derivative_p * derivative_p) \div pq

\* the body of information_function once p is known
InformationAt(p, discrimination, guessing) ==
    IF p <= guessing \/ p >= Scale \/ Scale - p <= 0 THEN 0
    ELSE IF Scale - guessing = 0 THEN 0
    ELSE InformationQuotient(
             DivS(MulS(MulS(discrimination, p), Scale - p), Scale - guessing),
             MulS(p, Scale - p))

\* information_function(ability, difficulty, discrimination, guessing)
information_function(ability, difficulty, discrimination, guessing) ==
    InformationAt(probability_correct(ability, difficulty, discrimination, guessing),
                  discrimination, guessing)

\* one response's contribution to the first and second derivative of the
\* log-likelihood once p is known; a response is the tuple
\* <<difficulty, correct, discrimination>>
ResponseTermAt(r, p) ==
    IF p > Eps /\ Scale - p > Eps
    THEN [d1 |-> IF r[2] THEN MulS(r[3], Scale - p) ELSE 0 - MulS(r[3], p),
          d2 |-> 0 - MulS(MulS(MulS(r[3], r[3]), p), Scale - p)]
    ELSE [d1 |-> 0, d2 |-> 0]

\* the inner loop body of estimate_ability
ResponseTerm(r, ability) ==
    ResponseTermAt(r, probability_correct(ability, r[1], r[3], 0))

AddTerms(t, rest) == [d1 |-> t.d1 + rest.d1, d2 |-> t.d2 + rest.d2]

\* likelihood_derivative and second_derivative over the responses i .. n
RECURSIVE Derivatives(_, _, _)
Derivatives(responses, i, ability) ==
    IF i > Len(responses) THEN [d1 |-> 0, d2 |-> 0]
    ELSE AddTerms(ResponseTerm(responses[i], ability),
                  Derivatives(responses, i + 1, ability))

\* cap of the Newton-Raphson loop
MaxIterations == 10

\* the Newton-Raphson loop of estimate_ability from iteration number
\* `iteration` on; yields the ability and the number of iterations started
RECURSIVE NewtonRaphson(_, _, _)

\* ability -= delta and the convergence check
NewtonUpdate(responses, ability, iteration, delta) ==
    IF Abs(delta) < Eps
    THEN [ability |-> ability - delta, iterations |-> iteration + 1]
    ELSE NewtonRaphson(responses, ability - delta, iteration + 1)

\* an iteration that goes on to the next one when the second derivative
\* is within 0.001 of zero
NewtonStep_NoEarlyExit(responses, ability, iteration, d) ==
    IF Abs(d.d2) > Eps
    THEN NewtonUpdate(responses, ability, iteration, DivS(d.d1, d.d2))
    ELSE NewtonRaphson(responses, ability, iteration + 1)

\* one iteration once the derivatives d are accumulated
NewtonStep(responses, ability, iteration, d) ==
    IF Abs(d.d2) > Eps
    THEN NewtonUpdate(responses, ability, iteration, DivS(d.d1, d.d2))
    ELSE [ability |-> ability, iterations |-> iteration + 1]

NewtonRaphson(responses, ability, iteration) ==
    IF iteration >= MaxIterations THEN [ability |-> ability, iterations |-> iteration]
    ELSE NewtonStep(responses, ability, iteration, Derivatives(responses, 1, ability))

\* the sum of the information of the responses i .. n at the ability
RECURSIVE TotalInformation(_, _, _)
TotalInformation(responses, i, ability) ==
    IF i > Len(responses) THEN 0
    ELSE information_function(ability, responses[i][1], responses[i][3], 0)
         + TotalInformation(responses, i + 1, ability)

\* standard error of a fresh session and of a zero-information estimate
DefaultSE == 2 * Scale

\* 1.0 / math.sqrt(information) if information > 0 else 2.0
StandardError(information) ==
    IF information > 0 THEN DivS(Scale, SqrtS(information)) ELSE DefaultSE

\* the result of estimate_ability once the loop has ended at `ability`
EstimateAt(responses, ability) ==
    [ability |-> ability,
     standard_error |-> StandardError(TotalInformation(responses, 1, ability))]

\* estimate_ability(responses, initial_ability) -> (ability, standard_error)
estimate_ability(responses, initial_ability) ==
    IF Len(responses) = 0
    THEN [ability |-> initial_ability, standard_error |-> DefaultSE]
    ELSE EstimateAt(responses, NewtonRaphson(responses, initial_ability, 0).ability)

\* ------------------------------------------------------------------------
\* QuestionItem
\* ------------------------------------------------------------------------

\* QuestionItem.__init__ (content and options are texts and are left out)
QuestionItem(item_id, correct_answer, difficulty, discrimination, guessing, subject, topic) ==
    [item_id |-> item_id, correct_answer |-> correct_answer,
     difficulty |-> difficulty, discrimination |-> discrimination,
     guessing |-> guessing, subject |-> subject, topic |-> topic,
     times_used |-> 0, times_correct |-> 0, avg_response_time |-> 0]

\* update_statistics that also lowers the difficulty of an item answered
\* correctly
update_statistics_Recalibrate(item, correct, response_time) ==
    [item EXCEPT !.times_used = @ + 1,
                 !.times_correct = IF correct THEN @ + 1 ELSE @,
                 !.difficulty = IF correct THEN @ - 1000 ELSE @,
                 !.avg_response_time = response_time]

\* QuestionItem.update_statistics(correct, response_time)
update_statistics(item, correct, response_time) ==
    LET used == item.times_used + 1
    IN  [item EXCEPT
            !.times_used = used,
            !.times_correct = IF correct THEN @ + 1 ELSE @,
            !.avg_response_time =
                IF used = 1 THEN response_time
                ELSE (@ * (used - 1) + response_time) \div used]

\* ------------------------------------------------------------------------
\* AdaptiveAssessmentEngine: state
\* ------------------------------------------------------------------------

VARIABLES
    question_pools,       \* sequence of [subject, items], in dict insertion order
    active_assessments,   \* assessment id -> session
    min_questions,
    max_questions,
    precision_threshold,
    now,                  \* the clock read by datetime.utcnow(), in seconds
    calls,                \* assessment id -> the await a submit_answer call in
                          \* flight on it is suspended at
    irt_call,             \* the last call of a static method of
                          \* ItemResponseTheory: its arguments and its result
    adaptive_engine       \* the AdaptiveEngine of backend/adaptive_test_new.py
                          \* with the value its last get_next_difficulty returned

vars == <<question_pools, active_assessments, min_questions, max_questions,
          precision_threshold, now, calls, irt_call, adaptive_engine>>

\* no static method of ItemResponseTheory has been called on its own
NoCall == [method |-> "none"]

\* AdaptiveEngine.__init__; current_lesson = None is "", and next_difficulty
\* is the variable of main that receives what get_next_difficulty returns
NewEngine ==
    [performance_history |-> <<>>,
     current_difficulty |-> "medium",
     consecutive_correct |-> 0,
     consecutive_wrong |-> 0,
     consecutive_wrong_lesson |-> 0,
     lesson_performance |-> <<>>,
     current_lesson |-> "",
     questions_in_current_difficulty |-> 0,
     target_questions_per_difficulty |-> 2,
     next_difficulty |-> ""]

\* bounds of the model
MaxTime == 2

MaxSessions == 2

MaxUsed == 1

Users == {"u1"}

\* assessment_id = f"assessment_{user_id}_{int(timestamp)}"
AssessmentId(user_id, t) == <<user_id, t>>

AssessmentIds == {AssessmentId(u, t) : u \in Users, t \in 1..MaxTime}

\* response_time = None
NoResponseTime == 0 - 1

\* session keys end_time / duration_minutes that are not set yet
NotSet == 0 - 1

\* a bank of the shape _load_question_pools builds: item ids are
\* f"{subject}_{i+1}", guessing is 0.1, discrimination lies in [0.8, 2.0];
\* the three items have the same difficulty and discrimination
SampleBank ==
    << [subject |-> "python_programming",
        items |-> << QuestionItem("python_programming_1", 0, 0 - 5000, 10000, 1000,
                                  "python_programming", "data_types"),
                     QuestionItem("python_programming_2", 1, 0 - 5000, 10000, 1000,
                                  "python_programming", "lists"),
                     QuestionItem("python_programming_3", 1, 0 - 5000, 10000, 1000,
                                  "python_programming", "lists") >>] >>

\* the same bank with a pool shorter than max_questions, as the pools of
\* _create_sample_questions are (at most 5 items against max_questions = 30)
ShortBank ==
    << [subject |-> "python_programming",
        items |-> SubSeq(SampleBank[1].items, 1, 2)] >>

\* bounds of the discrimination set by _calibrate_items
MinDiscrimination == Scale \div 2

MaxDiscrimination == 3 * Scale

CalibrateItem(question) ==
    IF question.discrimination < MinDiscrimination
    THEN [question EXCEPT !.discrimination = MinDiscrimination]
    ELSE IF question.discrimination > MaxDiscrimination
    THEN [question EXCEPT !.discrimination = MaxDiscrimination]
    ELSE question

\* _calibrate_items
CalibrateItems(pools) ==
    [i \in 1..Len(pools) |->
        [pools[i] EXCEPT !.items = [j \in 1..Len(pools[i].items) |->
                                        CalibrateItem(pools[i].items[j])]]]

\* subject in self.question_pools
HasSubject(pools, subject) == \E i \in 1..Len(pools) : pools[i].subject = subject

PoolIndex(pools, subject) == CHOOSE i \in 1..Len(pools) : pools[i].subject = subject

\* self.question_pools[subject]
Pool(pools, subject) == pools[PoolIndex(pools, subject)].items

\* the engines explored: a question bank with the CAT parameters set by
\* __init__ (min_questions, max_questions, precision_threshold), which the
\* engine keeps as plain attributes
Configurations ==
    { [bank |-> ShortBank, min |-> 2, max |-> 3, threshold |-> 15000],
      [bank |-> SampleBank, min |-> 3, max |-> 3, threshold |-> 35 * Scale] }

\* the engine after __init__ and initialize()
Init ==
    /\ \E c \in Configurations :
          /\ question_pools = CalibrateItems(c.bank)
          /\ min_questions = c.min
          /\ max_questions = c.max
          /\ precision_threshold = c.threshold
    /\ active_assessments = <<>>
    /\ now = 1
    /\ calls = <<>>
    /\ irt_call = NoCall
    /\ adaptive_engine = NewEngine

\* ------------------------------------------------------------------------
\* AdaptiveAssessmentEngine: helpers
\* ------------------------------------------------------------------------

\* a store whose entries all refer to the one session dictionary
Put_Shared(store, assessment_id, session) ==
    [k \in DOMAIN store \cup {assessment_id} |-> session]

\* self.active_assessments[assessment_id] = session
Put(store, assessment_id, session) ==
    [k \in DOMAIN store \cup {assessment_id} |->
        IF k = assessment_id THEN session ELSE store[k]]

\* user contexts passed to create_adaptive_assessment
NoContext == [k \in {} |-> 0]

UserContexts == { NoContext }

\* ability_mapping.get(difficulty_pref, 0.0)
AbilityMapping(difficulty_pref) ==
    CASE difficulty_pref = "beginner" -> 0 - Scale
      [] difficulty_pref = "intermediate" -> 0
      [] difficulty_pref = "advanced" -> Scale
      [] OTHER -> 0

\* Python values a user context can hold: None, and a float
None == [none |-> TRUE]

Number(v) == [value |-> v]

IsNone(x) == "none" \in DOMAIN x

\* d.get(key, default) on a dictionary
Get(d, key, default) == IF key \in DOMAIN d THEN d[key] ELSE default

\* the starting ability with "if previous_ability:" as the test
GetStartingAbility_Truthy(subject, user_context) ==
    LET previous == Get(user_context, "previous_assessments", NoContext)
        entry == Get(previous, subject, NoContext)
        previous_ability == Get(entry, "final_ability", None)
    IN  IF IsNone(previous) \/ IsNone(entry)
        THEN 0
        ELSE IF ~IsNone(previous_ability) /\ previous_ability.value # 0
        THEN previous_ability.value
        ELSE AbilityMapping(Get(user_context, "difficulty_preference", "intermediate"))

\* _get_starting_ability(user_id, subject, user_context): .get on a value
\* that is None raises AttributeError, and the except branch returns 0.0
GetStartingAbility(subject, user_context) ==
    LET previous == Get(user_context, "previous_assessments", NoContext)
        entry == Get(previous, subject, NoContext)
        previous_ability == Get(entry, "final_ability", None)
    IN  IF IsNone(previous) \/ IsNone(entry)
        THEN 0
        ELSE IF ~IsNone(previous_ability)
        THEN previous_ability.value
        ELSE AbilityMapping(Get(user_context, "difficulty_preference", "intermediate"))

\* the selection without the filter on questions_asked
AvailableQuestions_Unfiltered(pool, questions_asked) == pool

\* available_questions: the items of the pool that were not asked, in pool order
AvailableQuestions(pool, questions_asked) ==
    LET asked_questions == {questions_asked[i] : i \in 1..Len(questions_asked)}
    IN  SelectSeq(pool, LAMBDA q : q.item_id \notin asked_questions)

\* the comparison with >= in place of >
MoreInformative_OrEqual(information, max_information) == information >= max_information

\* the comparison that replaces the best question so far
MoreInformative(information, max_information) == information > max_information

\* the loop over available_questions: `best` is the index of best_question
\* (0 for None) after the first i - 1 items
RECURSIVE BestQuestion(_, _, _, _, _)

\* the loop body once the information of item i is known
BestStep(available, ability, i, best, max_information, information) ==
    IF MoreInformative(information, max_information)
    THEN BestQuestion(available, ability, i + 1, i, information)
    ELSE BestQuestion(available, ability, i + 1, best, max_information)

BestQuestion(available, ability, i, best, max_information) ==
    IF i > Len(available) THEN best
    ELSE BestStep(available, ability, i, best, max_information,
                  information_function(ability, available[i].difficulty,
                      available[i].discrimination, available[i].guessing))

\* if best_question is None: best_question = available_questions[0]
BestOrFirst(available, best) == IF best = 0 THEN available[1] ELSE available[best]

\* QuestionItem.to_dict
ToDict(item) ==
    [item_id |-> item.item_id, difficulty |-> item.difficulty,
     discrimination |-> item.discrimination, subject |-> item.subject,
     topic |-> item.topic]

Min(a, b) == IF a < b THEN a ELSE b

\* the session update and the value returned for the selected question
Selected(session, best_question, maxq) ==
    [error |-> "",
     session |-> [session EXCEPT
                     !.questions_asked = Append(@, best_question.item_id),
                     !.current_question_index = @ + 1],
     value |-> [question_number |-> session.current_question_index + 1,
                question |-> ToDict(best_question),
                progress_percentage |->
                    IF maxq = 0 THEN 0
                    ELSE Min(95 * Scale,
                             ((session.current_question_index + 1) * 100 * Scale)
                                 \div maxq)]]

\* the selection among the available questions
SelectAmong(session, available, maxq) ==
    IF Len(available) = 0
    THEN [error |-> "No more questions available", session |-> session]
    ELSE Selected(session,
                  BestOrFirst(available,
                              BestQuestion(available, session.current_ability, 1, 0, 0)),
                  maxq)

\* _select_next_question(assessment_id): the error raised ("" for none),
\* the session as the call leaves it and the value returned
SelectNextQuestion(store, pools, maxq, assessment_id) ==
    IF assessment_id \notin DOMAIN store
    THEN [error |-> "Assessment session not found"]
    ELSE SelectAmong(store[assessment_id],
                     AvailableQuestions(Pool(pools, store[assessment_id].subject),
                                        store[assessment_id].questions_asked),
                     maxq)

\* the decision without the minimum questions requirement
ShouldContinue_NoFloor(session, minq, maxq, threshold) ==
    IF Len(session.responses) >= maxq THEN FALSE
    ELSE IF session.standard_error <= threshold THEN FALSE
    ELSE TRUE

\* the decision with the maximum questions limit off by one
ShouldContinue_StrictCap(session, minq, maxq, threshold) ==
    IF Len(session.responses) < minq THEN TRUE
    ELSE IF Len(session.responses) > maxq THEN FALSE
    ELSE IF session.standard_error <= threshold THEN FALSE
    ELSE TRUE

\* the decision with < in place of <= on the precision threshold
ShouldContinue_StrictPrecision(session, minq, maxq, threshold) ==
    IF Len(session.responses) < minq THEN TRUE
    ELSE IF Len(session.responses) >= maxq THEN FALSE
    ELSE IF session.standard_error < threshold THEN FALSE
    ELSE TRUE

\* _should_continue_assessment(session)
ShouldContinue(session, minq, maxq, threshold) ==
    LET questions_answered == Len(session.responses)
    IN  IF questions_answered < minq THEN TRUE
        ELSE IF questions_answered >= maxq THEN FALSE
        ELSE IF session.standard_error <= threshold THEN FALSE
        ELSE TRUE

\* a completion that sets the flag and leaves end_time unset
CompleteAssessment_NoEndTime(session, t) ==
    [session EXCEPT !.is_complete = TRUE]

\* _complete_assessment: the session at clock reading t
CompleteAssessment(session, t) ==
    [session EXCEPT !.is_complete = TRUE,
                    !.end_time = t,
                    !.duration_minutes = ((t - session.start_time) * Scale) \div 60]

RECURSIVE CountCorrect(_, _)
CountCorrect(responses, i) ==
    IF i > Len(responses) THEN 0
    ELSE (IF responses[i][2] THEN 1 ELSE 0) + CountCorrect(responses, i + 1)

\* the levels with -1.5 counted as Beginner
ProficiencyLevel_Inclusive(ability) ==
    IF ability <= 0 - (3 * Scale) \div 2 THEN "Beginner"
    ELSE IF ability < Scale \div 2 THEN "Intermediate"
    ELSE "Advanced"

\* proficiency level of the report
ProficiencyLevel(ability) ==
    IF ability < 0 - (3 * Scale) \div 2 THEN "Beginner"
    ELSE IF ability < Scale \div 2 THEN "Intermediate"
    ELSE "Advanced"

\* _generate_learning_recommendations(session); each group of three
\* ability-driven texts is one tag
LearningRecommendations(session) ==
    LET ability == session.current_ability
        total == Len(session.responses)
        accuracy == (CountCorrect(session.responses, 1) * Scale) \div total
        byAbility == IF ability < 0 - Scale THEN <<"foundational">>
                     ELSE IF ability < Scale \div 2 THEN <<"intermediate">>
                     ELSE <<"advanced">>
    IN  IF total = 0 THEN <<"continue_practicing">>
        ELSE IF accuracy < (7 * Scale) \div 10
        THEN Append(byAbility, "review_difficult_areas")
        ELSE byAbility

\* the topic of the question with this id in the pool
TopicOf(pool, question_id) ==
    LET i == CHOOSE j \in 1..Len(pool) : pool[j].item_id = question_id
    IN  pool[i].topic

\* topic_performance: response i is counted under the topic of questions_asked[i]
TopicBreakdown(session, pool) ==
    LET n == Len(session.responses)
        topicAt(i) == TopicOf(pool, session.questions_asked[i])
        topics == {topicAt(i) : i \in 1..n}
        total(t) == Cardinality({i \in 1..n : topicAt(i) = t})
        correct(t) == Cardinality({i \in 1..n : topicAt(i) = t /\ session.responses[i][2]})
    IN  [t \in topics |-> [accuracy |-> (correct(t) * 100 * Scale) \div total(t),
                           questions_answered |-> total(t)]]

\* _generate_assessment_report(assessment_id) at clock reading t:
\* {} for an unknown id, {"error": ...} when the body raises (an index past
\* questions_asked, a division by zero), the report otherwise
GenerateReport(store, pools, assessment_id, t) ==
    IF assessment_id \notin DOMAIN store THEN [kind |-> "empty"]
    ELSE LET session == store[assessment_id]
             total_questions == Len(session.responses)
             correct_answers == CountCorrect(session.responses, 1)
         IN  IF \/ total_questions > Len(session.questions_asked)
                \/ session.standard_error = 0
                \/ total_questions = 0
             THEN [kind |-> "error"]
             ELSE [kind |-> "report",
                   assessment_id |-> assessment_id,
                   subject |-> session.subject,
                   final_ability_estimate |-> session.current_ability,
                   precision |-> DivS(Scale, session.standard_error),
                   proficiency_level |-> ProficiencyLevel(session.current_ability),
                   total_questions |-> total_questions,
                   correct_answers |-> correct_answers,
                   accuracy_percentage |-> (correct_answers * 100 * Scale) \div total_questions,
                   duration_minutes |-> IF session.duration_minutes = NotSet THEN 0
                                       ELSE session.duration_minutes,
                   topic_breakdown |-> TopicBreakdown(session, Pool(pools, session.subject)),
                   recommendations |-> LearningRecommendations(session),
                   completed_at |-> IF session.end_time = NotSet THEN t
                                    ELSE session.end_time]

\* ------------------------------------------------------------------------
\* AdaptiveAssessmentEngine: operations
\*
\* Each operation is an operator giving, for the current state and the
\* arguments, the error raised ("" for none), the value returned and the
\* state the call leaves, and an action that moves to that state.
\* ------------------------------------------------------------------------

Subjects == {"python_programming", "history"}

QuestionIds == {"python_programming_1", "python_programming_2", "python_programming_3"}

SelectedAnswers == {0, 1}

ResponseTimes == {NoResponseTime, 0, 2 * Scale}

NoResult == [kind |-> "none"]

\* the session dictionary built by create_adaptive_assessment
NewSession(assessment_id, user_id, subject, starting_ability, t, minq, maxq, threshold) ==
    [assessment_id |-> assessment_id,
     user_id |-> user_id,
     subject |-> subject,
     start_time |-> t,
     current_ability |-> starting_ability,
     standard_error |-> DefaultSE,
     responses |-> <<>>,
     questions_asked |-> <<>>,
     current_question_index |-> 0,
     is_complete |-> FALSE,
     end_time |-> NotSet,
     duration_minutes |-> NotSet,
     completion_criteria |-> [min_questions |-> minq, max_questions |-> maxq,
                              precision_threshold |-> threshold]]

\* the subject resolution without the fallback to the first subject
ResolveSubject_NoFallback(pools, subject) ==
    IF HasSubject(pools, subject) THEN subject ELSE ""

\* the subject a new assessment is created for ("" when there is no pool)
ResolveSubject(pools, subject) ==
    IF HasSubject(pools, subject) THEN subject
    ELSE IF Len(pools) > 0 THEN pools[1].subject
    ELSE ""

\* the end of create_adaptive_assessment, once the first question is selected
CreateResult(assessment_id, resolved, stored, first) ==
    IF first.error # ""
    THEN [error |-> first.error, result |-> NoResult, store |-> stored]
    ELSE [error |-> "",
          result |-> [kind |-> "created",
                      assessment_id |-> assessment_id,
                      subject |-> resolved,
                      first_question |-> first.value],
          store |-> Put(stored, assessment_id, first.session)]

\* create_adaptive_assessment once the session is stored
CreateStored(assessment_id, resolved, stored) ==
    CreateResult(assessment_id, resolved, stored,
                 SelectNextQuestion(stored, question_pools, max_questions, assessment_id))

\* a creation that registers the session before it resolves the subject
CreateFor_StoreFirst(user_id, resolved, user_context) ==
    IF resolved = ""
    THEN [error |-> "No question pools available", result |-> NoResult,
          store |-> Put(active_assessments, AssessmentId(user_id, now),
                        NewSession(AssessmentId(user_id, now), user_id, resolved,
                                   GetStartingAbility(resolved, user_context), now,
                                   min_questions, max_questions, precision_threshold))]
    ELSE CreateStored(AssessmentId(user_id, now), resolved,
             Put(active_assessments, AssessmentId(user_id, now),
                 NewSession(AssessmentId(user_id, now), user_id, resolved,
                            GetStartingAbility(resolved, user_context), now,
                            min_questions, max_questions, precision_threshold)))

\* create_adaptive_assessment once the subject is resolved
CreateFor(user_id, resolved, user_context) ==
    IF resolved = ""
    THEN [error |-> "No question pools available", result |-> NoResult,
          store |-> active_assessments]
    ELSE CreateStored(AssessmentId(user_id, now), resolved,
             Put(active_assessments, AssessmentId(user_id, now),
                 NewSession(AssessmentId(user_id, now), user_id, resolved,
                            GetStartingAbility(resolved, user_context), now,
                            min_questions, max_questions, precision_threshold)))

\* create_adaptive_assessment(user_id, subject, difficulty, user_context)
CreateOutcome(user_id, subject, user_context) ==
    CreateFor(user_id, ResolveSubject(question_pools, subject), user_context)

CreateStep(outcome) ==
    /\ active_assessments' = outcome.store
    /\ UNCHANGED <<question_pools, min_questions, max_questions,
                   precision_threshold, now, calls, irt_call, adaptive_engine>>

create_adaptive_assessment(user_id, subject, user_context) ==
    /\ \/ AssessmentId(user_id, now) \in DOMAIN active_assessments
       \/ Cardinality(DOMAIN active_assessments) < MaxSessions
    /\ CreateStep(CreateOutcome(user_id, subject, user_context))

\* submit_answer without the check of is_complete
RejectsCompleted_Never(session) == FALSE

\* if session["is_complete"]: raise
RejectsCompleted(session) == session.is_complete

\* the number of statistics updates made so far, over all items
RECURSIVE SumUsed(_, _)
SumUsed(items, j) ==
    IF j > Len(items) THEN 0 ELSE items[j].times_used + SumUsed(items, j + 1)

RECURSIVE TotalUsedFrom(_, _)
TotalUsedFrom(pools, i) ==
    IF i > Len(pools) THEN 0 ELSE SumUsed(pools[i].items, 1) + TotalUsedFrom(pools, i + 1)

TotalUsed(pools) == TotalUsedFrom(pools, 1)

\* if response_time:
Truthy(response_time) == response_time # NoResponseTime /\ response_time # 0

\* the update made on the counters the item had when it was loaded
UpdateQuestionStatistics_Stale(pools, p, j, is_correct, response_time) ==
    IF Truthy(response_time)
    THEN [pools EXCEPT ![p].items[j] =
             update_statistics([@ EXCEPT !.times_used = 0, !.times_correct = 0],
                               is_correct, response_time)]
    ELSE pools

\* the pools after "if response_time: question.update_statistics(...)"
UpdateQuestionStatistics(pools, p, j, is_correct, response_time) ==
    IF Truthy(response_time)
    THEN [pools EXCEPT ![p].items[j] = update_statistics(@, is_correct, response_time)]
    ELSE pools

\* submit_answer that does not record the response
RecordResponse_Skip(session, question, is_correct) == session

\* session["responses"].append((difficulty, is_correct, discrimination))
RecordResponse(session, question, is_correct) ==
    [session EXCEPT !.responses =
        Append(@, <<question.difficulty, is_correct, question.discrimination>>)]

WithEstimate(session, estimate) ==
    [session EXCEPT !.current_ability = estimate.ability,
                    !.standard_error = estimate.standard_error]

\* the ability update of submit_answer
UpdateAbility(session) ==
    WithEstimate(session, estimate_ability(session.responses, session.current_ability))

\* the index in the pool of the first question with this id, 0 for None
FindQuestion(pool, question_id) ==
    LET found == {j \in 1..Len(pool) : pool[j].item_id = question_id}
    IN  IF found = {} THEN 0
        ELSE CHOOSE j \in found : \A k \in found : j <= k

\* the response dictionary common to both outcomes of submit_answer
AnswerResponse(question, is_correct, session) ==
    [kind |-> "answer",
     correct |-> is_correct,
     correct_answer |-> question.correct_answer,
     current_ability_estimate |-> session.current_ability,
     precision |-> IF session.standard_error > 0
                   THEN DivS(Scale, session.standard_error) ELSE 0,
     questions_completed |-> Len(session.responses)]

\* the should_continue branch, once the next question is selected
SubmitContinue(assessment_id, question, is_correct, pools, session, next) ==
    IF next.error # ""
    THEN [error |-> next.error, response |-> NoResult,
          store |-> Put(active_assessments, assessment_id, session), pools |-> pools]
    ELSE [error |-> "",
          response |-> AnswerResponse(question, is_correct, session)
                           @@ [assessment_complete |-> FALSE,
                               next_question |-> next.value],
          store |-> Put(active_assessments, assessment_id, next.session),
          pools |-> pools]

\* the completion branch, once _complete_assessment has updated the store
SubmitComplete(assessment_id, question, is_correct, pools, session, store) ==
    [error |-> "",
     response |-> AnswerResponse(question, is_correct, session)
                      @@ [assessment_complete |-> TRUE,
                          final_results |-> GenerateReport(store, pools, assessment_id, now)],
     store |-> store,
     pools |-> pools]

\* submit_answer from "Check completion criteria" on: `session` has the
\* response recorded and the ability updated
SubmitRecorded(assessment_id, question, is_correct, pools, session) ==
    IF ShouldContinue(session, min_questions, max_questions, precision_threshold)
    THEN SubmitContinue(assessment_id, question, is_correct, pools, session,
             SelectNextQuestion(Put(active_assessments, assessment_id, session),
                                pools, max_questions, assessment_id))
    ELSE SubmitComplete(assessment_id, question, is_correct, pools, session,
             Put(active_assessments, assessment_id, CompleteAssessment(session, now)))

\* submit_answer from "Check if answer is correct" on
SubmitScored(assessment_id, session, p, j, question, is_correct, response_time) ==
    SubmitRecorded(assessment_id, question, is_correct,
                   UpdateQuestionStatistics(question_pools, p, j, is_correct, response_time),
                   UpdateAbility(RecordResponse(session, question, is_correct)))

SubmitError(error) ==
    [error |-> error, response |-> NoResult,
     store |-> active_assessments, pools |-> question_pools]

\* submit_answer(assessment_id, question_id, selected_answer, response_time)
SubmitOutcome(assessment_id, question_id, selected_answer, response_time) ==
    IF assessment_id \notin DOMAIN active_assessments
    THEN SubmitError("Assessment session not found")
    ELSE
    LET session == active_assessments[assessment_id]
        p == PoolIndex(question_pools, session.subject)
        pool == question_pools[p].items
        j == FindQuestion(pool, question_id)
    IN
    IF RejectsCompleted(session) THEN SubmitError("Assessment already completed")
    ELSE IF j = 0 THEN SubmitError("Question not found")
    ELSE SubmitScored(assessment_id, session, p, j, pool[j],
                      selected_answer = pool[j].correct_answer, response_time)

SubmitStep(outcome) ==
    /\ outcome.pools # question_pools => TotalUsed(question_pools) < MaxUsed
    /\ active_assessments' = outcome.store
    /\ question_pools' = outcome.pools
    /\ UNCHANGED <<min_questions, max_questions, precision_threshold, now, calls, irt_call, adaptive_engine>>

submit_answer(assessment_id, question_id, selected_answer, response_time) ==
    SubmitStep(SubmitOutcome(assessment_id, question_id, selected_answer, response_time))

\* an empty dictionary in place of None
UnknownStatus_Empty == [kind |-> "empty"]

\* if not session: return None
UnknownStatus == [kind |-> "None"]

\* get_assessment_status(assessment_id): None for an unknown id
GetAssessmentStatus(assessment_id) ==
    IF assessment_id \notin DOMAIN active_assessments THEN UnknownStatus
    ELSE LET session == active_assessments[assessment_id]
         IN  [kind |-> "status",
              assessment_id |-> assessment_id,
              is_complete |-> session.is_complete,
              questions_completed |-> Len(session.responses),
              current_ability_estimate |-> session.current_ability,
              precision |-> IF session.standard_error > 0
                            THEN DivS(Scale, session.standard_error) ELSE 0,
              estimated_remaining |->
                  IF min_questions - Len(session.responses) > 0
                  THEN min_questions - Len(session.responses) ELSE 0]

\* the call reads the session store and changes nothing
get_assessment_status(assessment_id) ==
    /\ GetAssessmentStatus(assessment_id).kind \in {"None", "status"}
    /\ UNCHANGED vars

\* _generate_assessment_report(assessment_id) called on its own
generate_assessment_report(assessment_id) ==
    /\ GenerateReport(active_assessments, question_pools, assessment_id, now).kind
          \in {"empty", "error", "report"}
    /\ UNCHANGED vars

\* the clock advances by a second
Tick ==
    /\ now < MaxTime
    /\ now' = now + 1
    /\ UNCHANGED <<question_pools, active_assessments, min_questions, max_questions,
                   precision_threshold, calls, irt_call, adaptive_engine>>

Next ==
    \/ \E u \in Users, s \in Subjects, c \in UserContexts :
          create_adaptive_assessment(u, s, c)
    \/ \E id \in AssessmentIds, q \in QuestionIds, a \in SelectedAnswers,
          rt \in ResponseTimes : submit_answer(id, q, a, rt)
    \/ \E id \in AssessmentIds : get_assessment_status(id)
    \/ \E id \in AssessmentIds : generate_assessment_report(id)
    \/ Tick

Spec == Init /\ [][Next]_vars

\* ------------------------------------------------------------------------
\* _select_next_question on its own: sessions as create_adaptive_assessment
\* stores them, over several banks and abilities
\* ------------------------------------------------------------------------

\* one subject of three items with (b, a, c) = (-1, 1.0, 0.1), (0, 1.2, 0.1),
\* (1, 1.5, 0.1)
ScenarioBank ==
    << [subject |-> "mathematics",
        items |-> << QuestionItem("mathematics_1", 1, 0 - Scale, 10000, 1000,
                                  "mathematics", "algebra"),
                     QuestionItem("mathematics_2", 1, 0, 12000, 1000,
                                  "mathematics", "algebra"),
                     QuestionItem("mathematics_3", 1, Scale, 15000, 1000,
                                  "mathematics", "calculus") >>] >>

SelectBanks == {SampleBank, ShortBank, ScenarioBank}

\* abilities of the stored session, from -40.0 to 40.0
SelectAbilities ==
    {0 - 40 * Scale, 0 - 2 * Scale, 0 - Scale, 0 - Scale \div 2, 0,
     Scale \div 2, Scale, (3 * Scale) \div 2, 2 * Scale, 3 * Scale, 40 * Scale}

\* the values __init__ gives min_questions, max_questions, precision_threshold
DefaultMinQuestions == 5

DefaultMaxQuestions == 30

DefaultPrecisionThreshold == 3000

InitSelect ==
    /\ \E bank \in SelectBanks, ability \in SelectAbilities :
          /\ question_pools = CalibrateItems(bank)
          /\ active_assessments =
                Put(<<>>, AssessmentId("u1", 1),
                    NewSession(AssessmentId("u1", 1), "u1", bank[1].subject, ability, 1,
                               DefaultMinQuestions, DefaultMaxQuestions,
                               DefaultPrecisionThreshold))
    /\ min_questions = DefaultMinQuestions
    /\ max_questions = DefaultMaxQuestions
    /\ precision_threshold = DefaultPrecisionThreshold
    /\ now = 1
    /\ calls = <<>>
    /\ irt_call = NoCall
    /\ adaptive_engine = NewEngine

SelectStep(assessment_id, next) ==
    /\ next.error = ""
    /\ active_assessments' = Put(active_assessments, assessment_id, next.session)
    /\ UNCHANGED <<question_pools, min_questions, max_questions,
                   precision_threshold, now, calls, irt_call, adaptive_engine>>

\* _select_next_question(assessment_id); the call that raises changes nothing
select_next_question(assessment_id) ==
    SelectStep(assessment_id,
               SelectNextQuestion(active_assessments, question_pools, max_questions,
                                  assessment_id))

NextSelect == \E id \in AssessmentIds : select_next_question(id)

SpecSelect == InitSelect /\ [][NextSelect]_vars

\* ------------------------------------------------------------------------
\* _should_continue_assessment on its own: submit_answer from "Check
\* completion criteria" on, over sessions whose answer is recorded
\* ------------------------------------------------------------------------

\* min_questions and max_questions range over 1..MaxCriterion
MaxCriterion == 4

StandardErrors == {2000, 3000, 5000, DefaultSE}

\* a session of the first subject with the first n items asked and answered
AnsweredSession(pools, n, standard_error, minq, maxq, threshold) ==
    [NewSession(AssessmentId("u1", 1), "u1", pools[1].subject, 0, 1, minq, maxq, threshold)
        EXCEPT !.responses = [i \in 1..n |-> <<pools[1].items[i].difficulty, TRUE,
                                               pools[1].items[i].discrimination>>],
               !.questions_asked = [i \in 1..n |-> pools[1].items[i].item_id],
               !.current_question_index = n,
               !.standard_error = standard_error]

InitCont ==
    /\ question_pools = CalibrateItems(SampleBank)
    /\ \E minq \in 1..MaxCriterion, maxq \in 1..MaxCriterion,
          n \in 1..Len(SampleBank[1].items), se \in StandardErrors :
          /\ min_questions = minq
          /\ max_questions = maxq
          /\ active_assessments =
                Put(<<>>, AssessmentId("u1", 1),
                    AnsweredSession(question_pools, n, se, minq, maxq,
                                    DefaultPrecisionThreshold))
    /\ precision_threshold = DefaultPrecisionThreshold
    /\ now = 1
    /\ calls = <<>>
    /\ irt_call = NoCall
    /\ adaptive_engine = NewEngine

\* the rest of submit_answer for the answer recorded last
continue_or_complete(assessment_id) ==
    /\ assessment_id \in DOMAIN active_assessments
    /\ ~active_assessments[assessment_id].is_complete
    /\ Len(active_assessments[assessment_id].questions_asked)
          = Len(active_assessments[assessment_id].responses)
    /\ SubmitStep(SubmitRecorded(assessment_id,
                                 Pool(question_pools,
                                      active_assessments[assessment_id].subject)[1],
                                 TRUE, question_pools,
                                 active_assessments[assessment_id]))

NextCont == \E id \in AssessmentIds : continue_or_complete(id)

SpecCont == InitCont /\ [][NextCont]_vars

\* ------------------------------------------------------------------------
\* Properties
\* ------------------------------------------------------------------------

Sessions == DOMAIN active_assessments

Asked(id) == active_assessments[id].questions_asked

Answered(id) == Len(active_assessments[id].responses)

\* C1: in every reachable state of every session, no item id occurs more
\* than once in questions_asked.
C1_NoItemAskedTwice ==
    \A id \in Sessions :
        \A i, j \in 1..Len(Asked(id)) : i # j => Asked(id)[i] # Asked(id)[j]

\* a session that was given a second question
C1_SecondQuestionAsked ==
    \E id \in Sessions : Len(Asked(id)) >= 2 /\ Answered(id) >= 1

\* the outcome of a submit_answer that is rejected and changes nothing
RejectedAsCompleted(outcome) ==
    /\ outcome.error = "Assessment already completed"
    /\ outcome.store = active_assessments
    /\ outcome.pools = question_pools

\* C2: once is_complete is true, every submit_answer on the session fails
\* with the "already completed" error and leaves the session (responses,
\* ability, standard error, asked items) as it was.
C2_CompletedRejectsSubmit ==
    \A id \in Sessions :
        active_assessments[id].is_complete =>
            \A q \in QuestionIds, a \in SelectedAnswers, rt \in ResponseTimes :
                RejectedAsCompleted(SubmitOutcome(id, q, a, rt))

\* a completed session next to the clock reading of a later call
C2_CompletedSession ==
    \E id \in Sessions :
        /\ active_assessments[id].is_complete
        /\ active_assessments[id].end_time < now

\* C3: a session is never complete with fewer than min_questions responses,
\* whatever the answers and the standard error.
C3_CompleteImpliesMinQuestions ==
    \A id \in Sessions :
        active_assessments[id].is_complete => Answered(id) >= min_questions

\* a session kept running by the floor: an answer is recorded, the standard
\* error is within the threshold and the session is not complete
C3_KeptRunningByFloor ==
    \E id \in Sessions :
        /\ ~active_assessments[id].is_complete
        /\ Answered(id) >= 1
        /\ Answered(id) < min_questions
        /\ active_assessments[id].standard_error <= precision_threshold

\* a submission after which the session is complete exactly at max_questions
\* and no error was raised, when the standard error is above the threshold
StopsAtCap(outcome, id) ==
    outcome.store[id].standard_error > precision_threshold =>
        /\ outcome.error = ""
        /\ outcome.store[id].is_complete
              <=> (Len(outcome.store[id].responses) = max_questions)

\* C4: while the standard error stays above precision_threshold and the
\* caller answers the question it was given, every submit_answer succeeds
\* and the session completes on the one that makes len(responses) equal to
\* max_questions, no earlier.
C4_StopsAtMaxQuestions ==
    \A id \in Sessions :
        ( /\ ~active_assessments[id].is_complete
          /\ Len(Asked(id)) = Answered(id) + 1
          /\ active_assessments[id].standard_error > precision_threshold )
        => \A a \in SelectedAnswers :
              StopsAtCap(SubmitOutcome(id, Asked(id)[Len(Asked(id))], a, NoResponseTime),
                         id)

\* C5 as stated: should_continue is False whenever len(responses) >=
\* max_questions, for every min_questions and standard error.
C5_CapOverridesFloor ==
    \A id \in Sessions :
        Answered(id) >= max_questions =>
            ~ShouldContinue(active_assessments[id], min_questions, max_questions,
                            precision_threshold)

\* C5: should_continue is True whenever len(responses) < min_questions (the
\* floor is checked first, also at or past max_questions), and False
\* whenever len(responses) >= min_questions and len(responses) >=
\* max_questions, for every standard error.
C5_FloorThenCap ==
    \A id \in Sessions :
        /\ Answered(id) < min_questions =>
              ShouldContinue(active_assessments[id], min_questions, max_questions,
                             precision_threshold)
        /\ (Answered(id) >= min_questions /\ Answered(id) >= max_questions) =>
              ~ShouldContinue(active_assessments[id], min_questions, max_questions,
                              precision_threshold)

\* a session completed by the cap alone: the standard error is above the
\* threshold
C5_CompletedByCap ==
    \E id \in Sessions :
        /\ active_assessments[id].is_complete
        /\ Answered(id) = max_questions
        /\ active_assessments[id].standard_error > precision_threshold

\* C6 as stated: len(responses) = len(questions_asked) in every reachable
\* state of a session.
C6_ResponsesEqualAsked ==
    \A id \in Sessions : Answered(id) = Len(Asked(id))

\* C6: the asked items are at most one more than the recorded responses;
\* the question handed out last is asked and not yet answered.
C6_AskedAtMostOneAhead ==
    \A id \in Sessions : Len(Asked(id)) <= Answered(id) + 1

\* a session with an answer recorded and the next question pending
C6_NextQuestionPending ==
    \E id \in Sessions : Answered(id) >= 1 /\ Len(Asked(id)) = Answered(id) + 1

\* the engine's information of an item at an ability
Information(ability, item) ==
    information_function(ability, item.difficulty, item.discrimination, item.guessing)

\* item k of the pool is not in `asked`, no item outside `asked` has more
\* information, and none before it in the pool has as much
FirstOfMaximalInformation(pool, asked, ability, k) ==
    /\ pool[k].item_id \notin asked
    /\ \A j \in 1..Len(pool) :
          pool[j].item_id \notin asked =>
              /\ Information(ability, pool[j]) <= Information(ability, pool[k])
              /\ j < k => Information(ability, pool[j]) < Information(ability, pool[k])

\* the items asked before the n-th selection of a session
AskedBefore(id, n) == {Asked(id)[i] : i \in 1..(n - 1)}

SessionPool(id) == Pool(question_pools, active_assessments[id].subject)

\* C7: every question selected for a session is, among the items of its
\* subject not asked before, the first in bank order whose information at the
\* session's ability is maximal (the first available one when every
\* candidate has information 0).
C7_SelectsFirstOfMaximalInformation ==
    \A id \in Sessions :
        \A n \in 1..Len(Asked(id)) :
            \E k \in 1..Len(SessionPool(id)) :
                /\ SessionPool(id)[k].item_id = Asked(id)[n]
                /\ FirstOfMaximalInformation(SessionPool(id), AskedBefore(id, n),
                                             active_assessments[id].current_ability, k)

\* a selection made among candidates that tie: another item not asked
\* before has the information of the selected one
C7_TieResolved ==
    \E id \in Sessions :
        \E n \in 1..Len(Asked(id)) :
            \E k, j \in 1..Len(SessionPool(id)) :
                /\ SessionPool(id)[k].item_id = Asked(id)[n]
                /\ j # k
                /\ SessionPool(id)[j].item_id \notin AskedBefore(id, n)
                /\ Information(active_assessments[id].current_ability, SessionPool(id)[j])
                      = Information(active_assessments[id].current_ability,
                                    SessionPool(id)[k])

\* C8: with the bank of three items (b, a, c) = (-1, 1.0, 0.1),
\* (0, 1.2, 0.1), (1, 1.5, 0.1) and starting ability 0.0, the first item
\* selected for the session is the b = 0 item.
C8_ScenarioSelectsMiddleItem ==
    \A id \in Sessions :
        ( /\ question_pools = CalibrateItems(ScenarioBank)
          /\ active_assessments[id].current_ability = 0
          /\ Len(Asked(id)) >= 1 )
        => Asked(id)[1] = "mathematics_2"

\* a first answer that is correct raises the ability and lowers the
\* standard error below its starting value
FirstCorrectImproves(before, after) ==
    (Len(after.responses) = 1 /\ after.responses[1][2]) =>
        /\ after.current_ability > before.current_ability
        /\ after.standard_error < DefaultSE

\* C9: for a fresh session (ability 0.0, standard error 2.0) the first
\* submit_answer with a correct answer leaves the ability strictly greater
\* and the standard error strictly less than 2.0.
C9_FirstCorrectAnswerImproves ==
    \A id \in Sessions :
        ( /\ active_assessments[id].responses = <<>>
          /\ ~active_assessments[id].is_complete
          /\ active_assessments[id].current_ability = 0
          /\ active_assessments[id].standard_error = DefaultSE )
        => \A q \in QuestionIds, a \in SelectedAnswers :
              FirstCorrectImproves(active_assessments[id],
                                   SubmitOutcome(id, q, a, NoResponseTime).store[id])

UnknownIds == AssessmentIds \ Sessions

\* submit_answer raised "Assessment session not found" and changed nothing
RejectedAsUnknown(outcome) ==
    /\ outcome.error = "Assessment session not found"
    /\ outcome.store = active_assessments
    /\ outcome.pools = question_pools

\* C10 as stated: submit_answer, get_assessment_status and
\* _generate_assessment_report all fail with a session-not-found error for an
\* id that is not in the store; none returns a normal value.
C10_UnknownSessionAlwaysFails ==
    \A id \in UnknownIds :
        /\ \A q \in QuestionIds, a \in SelectedAnswers, rt \in ResponseTimes :
              RejectedAsUnknown(SubmitOutcome(id, q, a, rt))
        /\ GetAssessmentStatus(id).kind \notin {"None", "status"}
        /\ GenerateReport(active_assessments, question_pools, id, now).kind
              \notin {"empty", "report"}

\* C10: for an id that is not in the store, submit_answer fails with the
\* session-not-found error and changes nothing, get_assessment_status
\* returns None and _generate_assessment_report returns an empty report.
C10_UnknownSessionOutcomes ==
    \A id \in UnknownIds :
        /\ \A q \in QuestionIds, a \in SelectedAnswers, rt \in ResponseTimes :
              RejectedAsUnknown(SubmitOutcome(id, q, a, rt))
        /\ GetAssessmentStatus(id).kind = "None"
        /\ GenerateReport(active_assessments, question_pools, id, now).kind = "empty"

\* a store that holds a session with answers and lacks another id
C10_UnknownNextToKnown ==
    /\ UnknownIds # {}
    /\ \E id \in Sessions : Answered(id) >= 1

\* the counters of item j of pool p after a submission, against those before
CountersGrew(after, before, is_correct) ==
    /\ after.times_used = before.times_used + 1
    /\ after.times_correct = before.times_correct + (IF is_correct THEN 1 ELSE 0)

\* a submission that recorded a response counted the use of the item
UsageCounted(id, p, j, selected_answer, outcome) ==
    Len(outcome.store[id].responses) = Answered(id) + 1 =>
        CountersGrew(outcome.pools[p].items[j], question_pools[p].items[j],
                     selected_answer = question_pools[p].items[j].correct_answer)

\* C11: every submit_answer that records a response adds exactly 1 to the
\* answered item's times_used and adds 1 to times_correct exactly when the
\* answer is correct, for every response_time (0 and None included).
C11_EverySubmitUpdatesCounters ==
    \A id \in Sessions :
        ~active_assessments[id].is_complete =>
            \A q \in QuestionIds, a \in SelectedAnswers, rt \in ResponseTimes :
                FindQuestion(SessionPool(id), q) # 0 =>
                    UsageCounted(id, PoolIndex(question_pools,
                                               active_assessments[id].subject),
                                 FindQuestion(SessionPool(id), q), a,
                                 SubmitOutcome(id, q, a, rt))

\* what calibration fixes of a bank: the subjects in order and, of each,
\* the items in order with their parameters and correct answer
ItemParameters(pools) ==
    [i \in 1..Len(pools) |->
        [subject |-> pools[i].subject,
         items |-> [j \in 1..Len(pools[i].items) |->
                       [item_id |-> pools[i].items[j].item_id,
                        difficulty |-> pools[i].items[j].difficulty,
                        discrimination |-> pools[i].items[j].discrimination,
                        guessing |-> pools[i].items[j].guessing,
                        correct_answer |-> pools[i].items[j].correct_answer]]]]

\* C12: after initialization no engine operation changes an item's
\* difficulty, discrimination, guessing or correct answer, nor the set and
\* order of the items of a subject; only usage counters change.
C12_ParametersNeverChange ==
    [][ItemParameters(question_pools') = ItemParameters(question_pools)]_vars

\* an item whose usage counters were updated by a submission
C12_CountersChanged ==
    \E p \in 1..Len(question_pools) :
        \E j \in 1..Len(question_pools[p].items) :
            question_pools[p].items[j].times_used >= 1

\* a submission on session id left every other session as it was
OthersUnchanged(id, outcome) ==
    /\ DOMAIN outcome.store = Sessions
    /\ \A other \in Sessions \ {id} : outcome.store[other] = active_assessments[other]

\* C13: a submit_answer on one session, with the selection or completion
\* it triggers, leaves every other session (ability, standard error,
\* responses, asked items, subject, is_complete) unchanged, in every state
\* reached by interleaving operations on the sessions.
C13_SubmitLeavesOtherSessions ==
    \A id \in Sessions :
        \A q \in QuestionIds, a \in SelectedAnswers, rt \in ResponseTimes :
            OthersUnchanged(id, SubmitOutcome(id, q, a, rt))

\* two sessions that both have recorded answers, one of them complete
C13_TwoSessionsAnswered ==
    \E a, b \in Sessions :
        /\ a # b
        /\ Answered(a) >= 1
        /\ Answered(b) >= 1
        /\ active_assessments[a].is_complete
        /\ ~active_assessments[b].is_complete

\* ------------------------------------------------------------------------
\* submit_answer calls in flight on several sessions: a call runs from
\* one await of submit_answer to the next as one step, and calls on
\* different sessions interleave at the awaits
\* ------------------------------------------------------------------------

\* a pool of two items that differ in difficulty
ConcurrentBank ==
    << [subject |-> "python_programming",
        items |-> << QuestionItem("python_programming_1", 0, 0 - 5000, 10000, 1000,
                                  "python_programming", "lists"),
                     QuestionItem("python_programming_2", 1, 5000, 10000, 1000,
                                  "python_programming", "operators") >>] >>

\* the session create_adaptive_assessment leaves for a user at clock reading t
CreatedSession(pools, user_id, t, minq, maxq, threshold) ==
    SelectAmong(NewSession(AssessmentId(user_id, t), user_id, pools[1].subject, 0, t,
                           minq, maxq, threshold),
                AvailableQuestions(pools[1].items, <<>>), maxq).session

\* response times that are measured (not None, not 0)
MeasuredResponseTimes == {2 * Scale}

\* the engine with two sessions created a second apart and no call in flight
InitConc ==
    /\ question_pools = CalibrateItems(ConcurrentBank)
    /\ min_questions = 1
    /\ max_questions = 2
    /\ precision_threshold = 15000
    /\ active_assessments =
          [id \in {AssessmentId("u1", 1), AssessmentId("u1", 2)} |->
              CreatedSession(question_pools, "u1", id[2], 1, 2, 15000)]
    /\ now = 2
    /\ calls = <<>>
    /\ irt_call = NoCall
    /\ adaptive_engine = NewEngine

Remove(f, k) == [x \in DOMAIN f \ {k} |-> f[x]]

\* submit_answer up to its first await: the checks, the score, the
\* statistics update, the response and the ability update
SubmitBegin(assessment_id, p, j, is_correct, response_time) ==
    /\ question_pools' =
          UpdateQuestionStatistics(question_pools, p, j, is_correct, response_time)
    /\ active_assessments' =
          Put(active_assessments, assessment_id,
              UpdateAbility(RecordResponse(active_assessments[assessment_id],
                                           question_pools[p].items[j], is_correct)))
    /\ calls' = Put(calls, assessment_id, "should_continue")
    /\ UNCHANGED <<min_questions, max_questions, precision_threshold, now, irt_call, adaptive_engine>>

submit_begin(assessment_id, question_id, selected_answer, response_time) ==
    /\ assessment_id \in DOMAIN active_assessments
    /\ assessment_id \notin DOMAIN calls
    /\ ~RejectsCompleted(active_assessments[assessment_id])
    /\ FindQuestion(Pool(question_pools, active_assessments[assessment_id].subject),
                    question_id) # 0
    /\ LET p == PoolIndex(question_pools, active_assessments[assessment_id].subject)
           j == FindQuestion(question_pools[p].items, question_id)
       IN  SubmitBegin(assessment_id, p, j,
                       selected_answer = question_pools[p].items[j].correct_answer,
                       response_time)

\* await self._should_continue_assessment(session)
submit_should_continue(assessment_id) ==
    /\ assessment_id \in DOMAIN calls
    /\ calls[assessment_id] = "should_continue"
    /\ calls' = Put(calls, assessment_id,
                    IF ShouldContinue(active_assessments[assessment_id], min_questions,
                                      max_questions, precision_threshold)
                    THEN "select_next_question" ELSE "complete_assessment")
    /\ UNCHANGED <<question_pools, active_assessments, min_questions, max_questions,
                   precision_threshold, now, irt_call, adaptive_engine>>

SubmitSelectNext(assessment_id, next) ==
    /\ active_assessments' =
          IF next.error = "" THEN Put(active_assessments, assessment_id, next.session)
          ELSE active_assessments
    /\ calls' = Remove(calls, assessment_id)
    /\ UNCHANGED <<question_pools, min_questions, max_questions,
                   precision_threshold, now, irt_call, adaptive_engine>>

\* await self._select_next_question(assessment_id) and the return (or raise)
submit_select_next(assessment_id) ==
    /\ assessment_id \in DOMAIN calls
    /\ calls[assessment_id] = "select_next_question"
    /\ SubmitSelectNext(assessment_id,
                        SelectNextQuestion(active_assessments, question_pools,
                                           max_questions, assessment_id))

\* await self._complete_assessment(assessment_id)
submit_complete(assessment_id) ==
    /\ assessment_id \in DOMAIN calls
    /\ calls[assessment_id] = "complete_assessment"
    /\ active_assessments' =
          Put(active_assessments, assessment_id,
              CompleteAssessment(active_assessments[assessment_id], now))
    /\ calls' = Put(calls, assessment_id, "generate_assessment_report")
    /\ UNCHANGED <<question_pools, min_questions, max_questions,
                   precision_threshold, now, irt_call, adaptive_engine>>

\* await self._generate_assessment_report(assessment_id) and the return
submit_report(assessment_id) ==
    /\ assessment_id \in DOMAIN calls
    /\ calls[assessment_id] = "generate_assessment_report"
    /\ GenerateReport(active_assessments, question_pools, assessment_id, now).kind
          \in {"error", "report"}
    /\ calls' = Remove(calls, assessment_id)
    /\ UNCHANGED <<question_pools, active_assessments, min_questions, max_questions,
                   precision_threshold, now, irt_call, adaptive_engine>>

NextConc ==
    \/ \E id \in AssessmentIds, q \in QuestionIds, a \in SelectedAnswers,
          rt \in MeasuredResponseTimes : submit_begin(id, q, a, rt)
    \/ \E id \in AssessmentIds : submit_should_continue(id)
    \/ \E id \in AssessmentIds : submit_select_next(id)
    \/ \E id \in AssessmentIds : submit_complete(id)
    \/ \E id \in AssessmentIds : submit_report(id)

SpecConc == InitConc /\ [][NextConc]_vars

\* the recorded responses, over all sessions, to an item of this difficulty
\* (the correct ones only when correct_only)
AnswersTo(difficulty, correct_only) ==
    {e \in Sessions \X (1..(max_questions + 1)) :
        /\ e[2] <= Answered(e[1])
        /\ active_assessments[e[1]].responses[e[2]][1] = difficulty
        /\ correct_only => active_assessments[e[1]].responses[e[2]][2]}

\* C14: with submit_answer calls on several sessions in flight at once, no
\* update of an item's usage counters is lost: times_used is the number of
\* submissions that updated the item and times_correct the number of those
\* that were correct.
C14_NoCounterUpdateLost ==
    \A p \in 1..Len(question_pools) :
        \A j \in 1..Len(question_pools[p].items) :
            /\ question_pools[p].items[j].times_used
                  = Cardinality(AnswersTo(question_pools[p].items[j].difficulty, FALSE))
            /\ question_pools[p].items[j].times_correct
                  = Cardinality(AnswersTo(question_pools[p].items[j].difficulty, TRUE))

\* calls on two sessions are in flight at once and both have recorded an
\* answer to the same item
C14_SameItemFromTwoSessions ==
    /\ \E a, b \in DOMAIN calls :
          /\ a # b
          /\ Answered(a) >= 1
          /\ Answered(b) >= 1
          /\ active_assessments[a].responses[1][1] = active_assessments[b].responses[1][1]

\* C15: is_complete is a one-way flag: once it is true of a session id it is
\* true in every later state, whatever operation follows.
C15_CompleteStaysComplete ==
    [][\A id \in Sessions :
          active_assessments[id].is_complete =>
              /\ id \in DOMAIN active_assessments'
              /\ active_assessments'[id].is_complete]_vars

\* the submission completed the session exactly when the standard error is
\* within the threshold
PrecisionDecides(id, outcome) ==
    outcome.store[id].is_complete
        <=> (outcome.store[id].standard_error <= precision_threshold)

\* C16: a submit_answer that leaves min_questions <= len(responses) <
\* max_questions leaves the session complete if and only if its standard
\* error is <= precision_threshold.
C16_StopsWhenPrecisionReached ==
    \A id \in Sessions :
        ( /\ ~active_assessments[id].is_complete
          /\ Len(Asked(id)) = Answered(id)
          /\ min_questions <= Answered(id)
          /\ Answered(id) < max_questions )
        => PrecisionDecides(id, SubmitRecorded(id, SessionPool(id)[1], TRUE,
                                               question_pools, active_assessments[id]))

\* a session completed between the floor and the cap, with the standard
\* error equal to the threshold
C16_CompletedByPrecision ==
    \E id \in Sessions :
        /\ active_assessments[id].is_complete
        /\ min_questions <= Answered(id)
        /\ Answered(id) < max_questions
        /\ active_assessments[id].standard_error = precision_threshold


\* ---------------------------------------------------------------------
\* create_adaptive_assessment over banks with no, one and two subjects and
\* over the user contexts _get_starting_ability distinguishes
\* ---------------------------------------------------------------------

\* the bank with the subjects in the order _load_question_pools inserts them
TwoSubjectBank == ScenarioBank \o SampleBank

CreateBanks == { <<>>, SampleBank, TwoSubjectBank }

CreateSubjects == {"mathematics", "python_programming", "general"}

Preferences == {"beginner", "intermediate", "advanced", "expert"}

\* final_ability of an earlier assessment: 0.0, -2.0
PreviousAbilities == {0, 0 - 2 * Scale}

\* user_context["previous_assessments"][subject]
HistoryEntries ==
    {None, NoContext, [final_ability |-> None]}
        \cup {[final_ability |-> Number(v)] : v \in PreviousAbilities}

\* user_context["previous_assessments"]
Histories ==
    {None} \cup {[s \in {"python_programming"} |-> e] : e \in HistoryEntries}

StartContexts ==
    {NoContext}
        \cup {[difficulty_preference |-> p] : p \in Preferences}
        \cup {[previous_assessments |-> h] : h \in Histories}
        \cup {[previous_assessments |-> h, difficulty_preference |-> p] :
                 h \in Histories, p \in Preferences}

InitCreate ==
    /\ \E bank \in CreateBanks : question_pools = CalibrateItems(bank)
    /\ active_assessments = <<>>
    /\ min_questions = DefaultMinQuestions
    /\ max_questions = DefaultMaxQuestions
    /\ precision_threshold = DefaultPrecisionThreshold
    /\ now = 1
    /\ calls = <<>>
    /\ irt_call = NoCall
    /\ adaptive_engine = NewEngine

NextCreate ==
    \/ \E user_id \in Users, subject \in CreateSubjects, user_context \in StartContexts :
          create_adaptive_assessment(user_id, subject, user_context)
    \/ Tick

SpecCreate == InitCreate /\ [][NextCreate]_vars

\* the cases of a user context for a subject
ContextMalformed(user_context, subject) ==
    \/ IsNone(Get(user_context, "previous_assessments", NoContext))
    \/ IsNone(Get(Get(user_context, "previous_assessments", NoContext), subject, NoContext))

HasPreviousAbility(user_context, subject) ==
    /\ ~ContextMalformed(user_context, subject)
    /\ "previous_assessments" \in DOMAIN user_context
    /\ subject \in DOMAIN user_context.previous_assessments
    /\ "final_ability" \in DOMAIN user_context.previous_assessments[subject]
    /\ ~IsNone(user_context.previous_assessments[subject].final_ability)

PreferenceAbility(user_context) ==
    IF "difficulty_preference" \notin DOMAIN user_context THEN 0
    ELSE IF user_context.difficulty_preference = "beginner" THEN 0 - Scale
    ELSE IF user_context.difficulty_preference = "advanced" THEN Scale
    ELSE 0

\* the starting ability the contract gives
ContractStart(user_context, subject) ==
    IF HasPreviousAbility(user_context, subject)
    THEN user_context.previous_assessments[subject].final_ability.value
    ELSE PreferenceAbility(user_context)

\* the same, with 0.0 for a context whose history is None
AbsorbingStart(user_context, subject) ==
    IF ContextMalformed(user_context, subject) THEN 0
    ELSE ContractStart(user_context, subject)

StartedAt(outcome, assessment_id, ability) ==
    outcome.error = "" => outcome.store[assessment_id].current_ability = ability

\* C17: the starting ability of a new session is the context's previous
\* ability for the session's subject whenever one is present (0.0 included),
\* whatever the difficulty preference; otherwise -1.0, 0.0 or 1.0 for
\* beginner, intermediate or advanced; and 0.0 when neither is given or the
\* preference is unrecognised.
C17_StartingAbilityFromContext ==
    \A user_id \in Users, subject \in CreateSubjects, user_context \in StartContexts :
        StartedAt(CreateOutcome(user_id, subject, user_context),
                  AssessmentId(user_id, now),
                  ContractStart(user_context, ResolveSubject(question_pools, subject)))

\* C17 (amended): as above, except that a context whose previous_assessments,
\* or whose entry for the subject, is None starts the session at 0.0 whatever
\* the difficulty preference.
C17_StartingAbilityOrNeutral ==
    \A user_id \in Users, subject \in CreateSubjects, user_context \in StartContexts :
        StartedAt(CreateOutcome(user_id, subject, user_context),
                  AssessmentId(user_id, now),
                  AbsorbingStart(user_context, ResolveSubject(question_pools, subject)))

\* two sessions are stored, one started at the previous ability -2.0 and one
\* at the beginner's -1.0
C17_StartedFromHistoryAndPreference ==
    \E id1 \in Sessions, id2 \in Sessions :
        /\ Answered(id1) = 0
        /\ active_assessments[id1].current_ability = 0 - 2 * Scale
        /\ Answered(id2) = 0
        /\ active_assessments[id2].current_ability = 0 - Scale


\* list(self.question_pools.keys())
BankSubjects(pools) == {pools[i].subject : i \in 1..Len(pools)}

\* the outcome of creating a session for a subject that the bank lacks
FallsBack(outcome, assessment_id, pools) ==
    IF Len(pools) > 0
    THEN /\ outcome.error = ""
         /\ outcome.result.subject \in BankSubjects(pools)
         /\ assessment_id \in DOMAIN outcome.store
         /\ outcome.store[assessment_id].subject = outcome.result.subject
    ELSE /\ outcome.error # ""
         /\ outcome.store = active_assessments

\* C18: create_adaptive_assessment with a subject that is not in the bank
\* succeeds whenever the bank has at least one subject, and the created
\* session's subject is then a subject of the bank; with an empty bank it
\* fails with an error. Every stored session's subject is a key of the bank.
C18_UnknownSubjectFallsBack ==
    /\ \A user_id \in Users, user_context \in StartContexts :
          \A subject \in CreateSubjects \ BankSubjects(question_pools) :
              FallsBack(CreateOutcome(user_id, subject, user_context),
                        AssessmentId(user_id, now), question_pools)
    /\ \A id \in Sessions :
          active_assessments[id].subject \in BankSubjects(question_pools)

\* a two-subject bank that lacks "general", for which a session is created
\* on the first subject, next to a stored session on that subject
C18_FellBackToFirstSubject ==
    /\ Len(question_pools) = 2
    /\ "general" \notin BankSubjects(question_pools)
    /\ CreateOutcome("u1", "general", NoContext).error = ""
    /\ CreateOutcome("u1", "general", NoContext).result.subject = question_pools[1].subject
    /\ \E id \in Sessions : active_assessments[id].subject = question_pools[1].subject

\* an empty bank, and the time has moved on: creation still fails
C18_EmptyBankFails ==
    /\ Len(question_pools) = 0
    /\ now > 1
    /\ CreateOutcome("u1", "general", NoContext).error = "No question pools available"


\* ---------------------------------------------------------------------
\* The static methods of ItemResponseTheory called on their own, over
\* inputs that reach the overflow of math.exp, the degenerate regions of
\* the information and the except branches
\* ---------------------------------------------------------------------

\* abilities from -720.0 to 720.0: math.exp overflows from 709.79 on
IrtAbilities ==
    {0 - 720 * Scale, 0 - 710 * Scale, 0 - 709 * Scale, 0 - 40 * Scale, 0 - 3 * Scale,
     0 - Scale, 0, Scale, 3 * Scale, 40 * Scale, 720 * Scale}

IrtDifficulties == {0 - Scale, 0, Scale}

IrtDiscriminations == {0 - Scale, 0, 5000, Scale, 2 * Scale}

IrtGuessings == {0, 1000, 5000, Scale}

\* responses (difficulty, correct, discrimination), and a tuple that the
\* loop of estimate_ability cannot unpack
IrtResponses ==
    { <<0, TRUE, Scale>>, <<0, FALSE, Scale>>, <<Scale, TRUE, 2 * Scale>>, <<0, TRUE>> }

IrtResponseLists ==
    { <<>> } \cup { <<r>> : r \in IrtResponses }
             \cup { <<r, s>> : r \in IrtResponses, s \in IrtResponses }

IrtInitialAbilities == {0 - 720 * Scale, 0 - 40 * Scale, 0, 40 * Scale}

\* the exceptions the bodies of the three methods can raise
Exceptions == {"OverflowError", "ZeroDivisionError", "ValueError"}

\* the handler of probability_correct with OverflowError left out
ProbabilityHandler_ZeroDivisionOnly == {"ZeroDivisionError"}

\* except (OverflowError, ZeroDivisionError):
ProbabilityHandler == {"OverflowError", "ZeroDivisionError"}

\* except:
InformationHandler == Exceptions

\* except Exception as e:
EstimateHandler == Exceptions

\* the exception that leaves a try block whose handler catches `handler`
\* ("" when none does)
Escapes(raised, handler) == IF raised \in handler THEN "" ELSE raised

\* math.exp(exponent) in the body of probability_correct
ProbabilityRaises(exponent) ==
    IF exponent > ExpOverflow THEN "OverflowError" ELSE ""

\* the divisions in the body of information_function once p is known
InformationRaises(p, guessing) ==
    IF p <= guessing \/ p >= Scale \/ Scale - p <= 0 THEN ""
    ELSE IF Scale - guessing = 0 \/ MulS(p, Scale - p) = 0 THEN "ZeroDivisionError"
    ELSE ""

\* for difficulty, correct, discrimination in responses:
EstimateRaises(responses) ==
    IF \E i \in 1..Len(responses) : Len(responses[i]) # 3 THEN "ValueError" ELSE ""

\* return initial_ability, 2.0 in the except branch of estimate_ability
EstimateResult(responses, initial_ability) ==
    IF EstimateRaises(responses) # "" /\ Len(responses) > 0
    THEN [ability |-> initial_ability, standard_error |-> DefaultSE]
    ELSE estimate_ability(responses, initial_ability)

InitIRT ==
    /\ question_pools = <<>>
    /\ active_assessments = <<>>
    /\ min_questions = DefaultMinQuestions
    /\ max_questions = DefaultMaxQuestions
    /\ precision_threshold = DefaultPrecisionThreshold
    /\ now = 1
    /\ calls = <<>>
    /\ irt_call = NoCall
    /\ adaptive_engine = NewEngine

IrtStep(call) ==
    /\ irt_call' = call
    /\ UNCHANGED <<question_pools, active_assessments, min_questions, max_questions,
                   precision_threshold, now, calls, adaptive_engine>>

call_probability_correct(ability, difficulty, discrimination, guessing) ==
    IrtStep([method |-> "probability_correct",
             result |-> probability_correct(ability, difficulty, discrimination,
                                            guessing),
             raised |-> Escapes(ProbabilityRaises(MulS(0 - discrimination,
                                                       ability - difficulty)),
                                ProbabilityHandler),
             arguments |-> <<ability, difficulty, discrimination, guessing>>])

call_information_function(ability, difficulty, discrimination, guessing) ==
    IrtStep([method |-> "information_function",
             result |-> information_function(ability, difficulty, discrimination,
                                             guessing),
             raised |-> Escapes(InformationRaises(
                                    probability_correct(ability, difficulty,
                                                        discrimination, guessing),
                                    guessing),
                                InformationHandler),
             arguments |-> <<ability, difficulty, discrimination, guessing>>])

call_estimate_ability(responses, initial_ability) ==
    IrtStep([method |-> "estimate_ability",
             result |-> EstimateResult(responses, initial_ability),
             raised |-> Escapes(EstimateRaises(responses), EstimateHandler),
             arguments |-> <<responses, initial_ability>>])

NextIRT ==
    \/ \E ability \in IrtAbilities, difficulty \in IrtDifficulties,
          discrimination \in IrtDiscriminations, guessing \in IrtGuessings :
          call_probability_correct(ability, difficulty, discrimination, guessing)
    \/ \E ability \in IrtAbilities, difficulty \in IrtDifficulties,
          discrimination \in IrtDiscriminations, guessing \in IrtGuessings :
          call_information_function(ability, difficulty, discrimination, guessing)
    \/ \E responses \in IrtResponseLists, initial_ability \in IrtInitialAbilities :
          call_estimate_ability(responses, initial_ability)

SpecIRT == InitIRT /\ [][NextIRT]_vars

\* probability_correct returned no more for the lower ability
NotAbove(lower, call) ==
    probability_correct(lower, call.arguments[2], call.arguments[3], call.arguments[4])
        <= call.result

\* C19: for fixed difficulty, discrimination > 0 and guessing,
\* probability_correct is non-decreasing in the ability over the whole
\* range of abilities, those at which math.exp overflows included.
C19_ProbabilityMonotone ==
    ( /\ irt_call.method = "probability_correct"
      /\ irt_call.arguments[3] > 0 )
    => \A lower \in IrtAbilities :
           lower <= irt_call.arguments[1] => NotAbove(lower, irt_call)


\* the exponent of a call of probability_correct or information_function
ExponentOf(call) == MulS(0 - call.arguments[3], call.arguments[1] - call.arguments[2])

\* the probability inside a call of information_function
ProbabilityOf(call) ==
    probability_correct(call.arguments[1], call.arguments[2], call.arguments[3],
                        call.arguments[4])

Degenerate(p, guessing) == p <= guessing \/ p >= Scale \/ Scale - p <= 0

\* the estimator failed, or the information summed at its estimate is zero
NoInformation(call) ==
    \/ EstimateRaises(call.arguments[1]) # ""
    \/ TotalInformation(call.arguments[1], 1, call.result.ability) = 0

\* C20: probability_correct, information_function and estimate_ability
\* never raise: an overflow of the exponent yields P = 0.5, a degenerate
\* region (P <= guessing, P >= 1 or Q <= 0) yields information 0.0, and zero
\* total information or a failure inside the estimator yields the standard
\* error 2.0.
C20_FailuresAbsorbed ==
    /\ irt_call.method # "none" => irt_call.raised = ""
    /\ ( /\ irt_call.method = "probability_correct"
         /\ ExponentOf(irt_call) > ExpOverflow )
       => irt_call.result = Scale \div 2
    /\ ( /\ irt_call.method = "information_function"
         /\ Degenerate(ProbabilityOf(irt_call), irt_call.arguments[4]) )
       => irt_call.result = 0
    /\ ( /\ irt_call.method = "estimate_ability"
         /\ NoInformation(irt_call) )
       => irt_call.result.standard_error = 2 * Scale

\* estimate_ability was called on two well-formed responses that carry no
\* information at its estimate, and returned the standard error 2.0
C20_ZeroInformationEstimate ==
    /\ irt_call.method = "estimate_ability"
    /\ Len(irt_call.arguments[1]) = 2
    /\ EstimateRaises(irt_call.arguments[1]) = ""
    /\ TotalInformation(irt_call.arguments[1], 1, irt_call.result.ability) = 0
    /\ irt_call.result.standard_error = 2 * Scale

\* probability_correct was called with an overflowing exponent
C20_OverflowAbsorbed ==
    /\ irt_call.method = "probability_correct"
    /\ ExponentOf(irt_call) > ExpOverflow
    /\ irt_call.raised = ""
    /\ irt_call.result = Scale \div 2

\* estimate_ability was called on a response it cannot unpack
C20_EstimatorFailureAbsorbed ==
    /\ irt_call.method = "estimate_ability"
    /\ EstimateRaises(irt_call.arguments[1]) # ""
    /\ irt_call.raised = ""
    /\ irt_call.result.ability = irt_call.arguments[2]

\* a lower ability at which math.exp overflows, next to a call without overflow
C19_OverflowBelow ==
    /\ irt_call.method = "probability_correct"
    /\ irt_call.arguments[3] > 0
    /\ ExponentOf(irt_call) <= ExpOverflow
    /\ \E lower \in IrtAbilities :
          /\ lower < irt_call.arguments[1]
          /\ MulS(0 - irt_call.arguments[3], lower - irt_call.arguments[2]) > ExpOverflow
          /\ ~NotAbove(lower, irt_call)


\* the Newton-Raphson loop run by a call of estimate_ability
LoopOf(call) == NewtonRaphson(call.arguments[1], call.arguments[2], 0)

\* the second derivative at the ability is within 0.001 of zero
Flat(responses, ability) == Abs(Derivatives(responses, 1, ability).d2) <= Scale \div 1000

\* the step taken at the ability `from`
StepAt(responses, from) ==
    DivS(Derivatives(responses, 1, from).d1, Derivatives(responses, 1, from).d2)

\* the ability was reached by a last step of less than 0.001
SmallLastStep(responses, ability) ==
    \E delta \in (1 - Scale \div 1000)..(Scale \div 1000 - 1) :
        /\ ~Flat(responses, ability + delta)
        /\ StepAt(responses, ability + delta) = delta

\* the loop of a call ended as the bounded Newton-Raphson iteration does
BoundedLoop(call, loop) ==
    /\ loop.iterations <= 10
    /\ loop.ability = call.result.ability
    /\ loop.iterations < 10
          => \/ Flat(call.arguments[1], loop.ability)
             \/ SmallLastStep(call.arguments[1], loop.ability)
    /\ Flat(call.arguments[1], call.arguments[2])
          => (loop.iterations = 1 /\ loop.ability = call.arguments[2])

\* C21: estimate_ability ends after at most 10 Newton-Raphson iterations for
\* every response history and initial ability; it leaves the loop early when
\* the step is below 0.001 in absolute value, or when the second derivative
\* is within 0.001 of zero, and then without updating the ability.
C21_EstimatorLoopBounded ==
    ( /\ irt_call.method = "estimate_ability"
      /\ Len(irt_call.arguments[1]) > 0
      /\ EstimateRaises(irt_call.arguments[1]) = "" )
    => BoundedLoop(irt_call, LoopOf(irt_call))

\* a call whose loop ran all 10 iterations
C21_RanToTheCap ==
    /\ irt_call.method = "estimate_ability"
    /\ Len(irt_call.arguments[1]) > 0
    /\ EstimateRaises(irt_call.arguments[1]) = ""
    /\ LoopOf(irt_call).iterations = 10

\* a call whose loop ended early on a step below 0.001
C21_Converged ==
    /\ irt_call.method = "estimate_ability"
    /\ Len(irt_call.arguments[1]) > 0
    /\ EstimateRaises(irt_call.arguments[1]) = ""
    /\ LoopOf(irt_call).iterations < 10
    /\ ~Flat(irt_call.arguments[1], LoopOf(irt_call).ability)

\* a call whose loop ended on a flat likelihood after at least one update
C21_EndedFlat ==
    /\ irt_call.method = "estimate_ability"
    /\ Len(irt_call.arguments[1]) > 0
    /\ EstimateRaises(irt_call.arguments[1]) = ""
    /\ LoopOf(irt_call).iterations \in 2..9
    /\ Flat(irt_call.arguments[1], LoopOf(irt_call).ability)


\* ---------------------------------------------------------------------
\* The final report: submit_answer from "Check completion criteria" on,
\* over sessions that reach max_questions with the answer recorded last,
\* at abilities around the thresholds of the report
\* ---------------------------------------------------------------------

\* -2.0, -1.5001, -1.5, -1.2, -1.0001, -1.0, 0, 0.4999, 0.5, 2.0
ReportAbilities ==
    {0 - 2 * Scale, 0 - 15001, 0 - 15000, 0 - 12000, 0 - 10001, 0 - Scale, 0,
     4999, 5000, 2 * Scale}

\* which of the answers were correct
AnswerPatterns ==
    { <<c1>> : c1 \in BOOLEAN } \cup { <<c1, c2>> : c1 \in BOOLEAN, c2 \in BOOLEAN }
        \cup { <<c1, c2, c3>> : c1 \in BOOLEAN, c2 \in BOOLEAN, c3 \in BOOLEAN }

\* a session with answers of the given correctness, estimated at the ability
EstimatedSession(pools, pattern, ability, maxq) ==
    [AnsweredSession(pools, Len(pattern), DefaultSE, 1, maxq, DefaultPrecisionThreshold)
        EXCEPT !.responses = [i \in 1..Len(pattern) |->
                                 <<pools[1].items[i].difficulty, pattern[i],
                                   pools[1].items[i].discrimination>>],
               !.current_ability = ability]

InitReport ==
    /\ question_pools = CalibrateItems(SampleBank)
    /\ min_questions = 1
    /\ \E pattern \in AnswerPatterns, ability \in ReportAbilities :
          /\ max_questions = Len(pattern)
          /\ active_assessments =
                Put(<<>>, AssessmentId("u1", 1),
                    EstimatedSession(question_pools, pattern, ability, Len(pattern)))
    /\ precision_threshold = DefaultPrecisionThreshold
    /\ now = 1
    /\ calls = <<>>
    /\ irt_call = NoCall
    /\ adaptive_engine = NewEngine

SpecReport == InitReport /\ [][NextCont]_vars

\* the reports of the completed sessions
FinalReport(id) == GenerateReport(active_assessments, question_pools, id, now)

\* the level is the one of the three bands the ability lies in
LevelOfBand(report) ==
    /\ report.proficiency_level \in {"Beginner", "Intermediate", "Advanced"}
    /\ report.proficiency_level = "Beginner" <=> report.final_ability_estimate < 0 - 15000
    /\ report.proficiency_level = "Intermediate"
          <=> ( /\ 0 - 15000 <= report.final_ability_estimate
                /\ report.final_ability_estimate < 5000 )
    /\ report.proficiency_level = "Advanced" <=> report.final_ability_estimate >= 5000

\* the final results a completing submit_answer returns
CompletionReport(id, outcome) ==
    /\ outcome.error = ""
    /\ outcome.response.assessment_complete
    /\ outcome.response.final_results.kind = "report"
    /\ outcome.response.final_results.final_ability_estimate
          = outcome.store[id].current_ability
    /\ outcome.response.final_results.final_ability_estimate
          = outcome.response.current_ability_estimate
    /\ LevelOfBand(outcome.response.final_results)

GroupOfLevel(level) ==
    IF level = "Beginner" THEN "foundational"
    ELSE IF level = "Intermediate" THEN "intermediate"
    ELSE "advanced"

\* C28: in every final report the ability-driven recommendations are those
\* of the reported proficiency level: foundational exactly for Beginner,
\* intermediate exactly for Intermediate, advanced exactly for Advanced.
C28_RecommendationsMatchLevel ==
    \A id \in Sessions :
        active_assessments[id].is_complete
        => FinalReport(id).recommendations[1]
               = GroupOfLevel(FinalReport(id).proficiency_level)

\* outside [-1.5, -1.0) the recommendations are those of the level
C28_AgreeOutsideGap ==
    \A id \in Sessions :
        ( /\ active_assessments[id].is_complete
          /\ ~( /\ 0 - 15000 <= active_assessments[id].current_ability
                /\ active_assessments[id].current_ability < 0 - Scale ) )
        => FinalReport(id).recommendations[1]
               = GroupOfLevel(FinalReport(id).proficiency_level)


\* the two outcomes of a submit_answer that returns normally
ContinuesOrCompletes(id, outcome) ==
    outcome.error = ""
    => \/ /\ ~outcome.response.assessment_complete
          /\ "next_question" \in DOMAIN outcome.response
          /\ "final_results" \notin DOMAIN outcome.response
          /\ ~outcome.store[id].is_complete
          /\ outcome.store[id].end_time = NotSet
       \/ /\ outcome.response.assessment_complete
          /\ "final_results" \in DOMAIN outcome.response
          /\ "next_question" \notin DOMAIN outcome.response
          /\ outcome.store[id].is_complete
          /\ outcome.store[id].end_time # NotSet

\* C23: every submit_answer that returns normally returns one of two
\* outcomes, consistent with the session: assessment_complete false with a
\* next question and is_complete false, or assessment_complete true with
\* final results, is_complete true and end_time set.
C23_SubmitContinuesOrCompletes ==
    \A id \in Sessions, question_id \in QuestionIds, selected_answer \in SelectedAnswers :
        ContinuesOrCompletes(id, SubmitOutcome(id, question_id, selected_answer,
                                               NoResponseTime))

\* one session whose next submit_answer completes it, next to one whose next
\* submit_answer returns a question
C23_BothOutcomesAhead ==
    \E id1 \in Sessions, id2 \in Sessions :
        /\ SubmitOutcome(id1, "python_programming_1", 0, NoResponseTime).error = ""
        /\ SubmitOutcome(id1, "python_programming_1", 0, NoResponseTime)
               .response.assessment_complete
        /\ SubmitOutcome(id2, "python_programming_1", 0, NoResponseTime).error = ""
        /\ ~SubmitOutcome(id2, "python_programming_1", 0, NoResponseTime)
               .response.assessment_complete


\* the item most recently selected for the session and not answered yet
AwaitedItem(id, question_id) ==
    /\ Len(Asked(id)) = Answered(id) + 1
    /\ Asked(id)[Len(Asked(id))] = question_id

\* C24: a session goes SELECT_ITEM, AWAIT_ANSWER, SCORE: submit_answer
\* records a response only for the item most recently selected for the
\* session; a submission naming an item never selected in the session, or
\* one already answered in it, is rejected.
C24_OnlyAwaitedItemAnswered ==
    \A id \in Sessions, question_id \in QuestionIds, selected_answer \in SelectedAnswers :
        SubmitOutcome(id, question_id, selected_answer, NoResponseTime).error = ""
        => AwaitedItem(id, question_id)


\* the session has the responses, estimate and asked items it had before
SessionKept(id, outcome) ==
    /\ DOMAIN outcome.store = DOMAIN active_assessments
    /\ id \in DOMAIN active_assessments
          => /\ outcome.store[id].responses = active_assessments[id].responses
             /\ outcome.store[id].current_ability = active_assessments[id].current_ability
             /\ outcome.store[id].standard_error = active_assessments[id].standard_error
             /\ outcome.store[id].questions_asked = active_assessments[id].questions_asked

\* C25: submit_answer is all-or-nothing: whenever it raises (unknown
\* session, completed session, unknown item, no item left to select), the
\* session's responses, ability, standard error and asked items are as
\* before the call.
C25_FailedSubmitChangesNothing ==
    \A id \in AssessmentIds, question_id \in QuestionIds \cup {"unknown_item"},
       selected_answer \in SelectedAnswers :
        SubmitOutcome(id, question_id, selected_answer, NoResponseTime).error # ""
        => SessionKept(id, SubmitOutcome(id, question_id, selected_answer, NoResponseTime))

\* the errors raised before the response is recorded leave the session as it was
C25_EarlyErrorsChangeNothing ==
    \A id \in AssessmentIds, question_id \in QuestionIds \cup {"unknown_item"},
       selected_answer \in SelectedAnswers :
        SubmitOutcome(id, question_id, selected_answer, NoResponseTime).error
            \in {"Assessment session not found", "Assessment already completed",
                 "Question not found"}
        => SessionKept(id, SubmitOutcome(id, question_id, selected_answer, NoResponseTime))


C27_CreateNeverReplaces ==
    \A user_id \in Users, subject \in Subjects, user_context \in UserContexts :
        CreateOutcome(user_id, subject, user_context).error = ""
        => /\ AssessmentId(user_id, now) \notin DOMAIN active_assessments
           /\ \A id \in Sessions :
                 CreateOutcome(user_id, subject, user_context).store[id]
                     = active_assessments[id]

\* a creation at a clock reading at which the user has no session keeps
\* every earlier session as it was
C27_FreshIdKeepsSessions ==
    \A user_id \in Users, subject \in Subjects, user_context \in UserContexts :
        ( /\ CreateOutcome(user_id, subject, user_context).error = ""
          /\ AssessmentId(user_id, now) \notin DOMAIN active_assessments )
        => \A id \in Sessions :
               CreateOutcome(user_id, subject, user_context).store[id]
                   = active_assessments[id]


\* ---------------------------------------------------------------------
\* AdaptiveEngine of backend/adaptive_test_new.py, driven as main drives
\* it: start_new_lesson once per lesson, then for each answer
\* record_response and get_next_difficulty
\* ---------------------------------------------------------------------

\* the number of answers recorded by one engine
MaxAnswers == 4

Lessons == {"lesson_1", "lesson_2"}

\* response_time of an answer, in seconds
AnswerTimes == {2 * Scale}

\* the entry start_new_lesson creates in lesson_performance
NewLessonPerformance ==
    [easy |-> [correct |-> 0, total |-> 0, avg_time |-> 0],
     medium |-> [correct |-> 0, total |-> 0, avg_time |-> 0],
     hard |-> [correct |-> 0, total |-> 0, avg_time |-> 0],
     terminated |-> FALSE]

\* AdaptiveEngine.start_new_lesson(lesson_name)
StartNewLesson(e, lesson_name) ==
    [e EXCEPT !.current_lesson = lesson_name,
              !.current_difficulty = "medium",
              !.consecutive_correct = 0,
              !.consecutive_wrong = 0,
              !.consecutive_wrong_lesson = 0,
              !.questions_in_current_difficulty = 0,
              !.lesson_performance =
                  IF lesson_name \in DOMAIN @ THEN @
                  ELSE Put(@, lesson_name, NewLessonPerformance)]

\* AdaptiveEngine.should_terminate_lesson()
ShouldTerminateLesson(e) == e.consecutive_wrong_lesson >= 2

\* AdaptiveEngine.mark_lesson_terminated()
MarkLessonTerminated(e) ==
    IF e.current_lesson # "" /\ e.current_lesson \in DOMAIN e.lesson_performance
    THEN [e EXCEPT !.lesson_performance[e.current_lesson].terminated = TRUE]
    ELSE e

\* AdaptiveEngine.record_response(response), with the UserResponse main builds
RecordUserResponse(e, was_correct, response_time) ==
    [e EXCEPT !.performance_history =
        Append(@, [lesson_name |-> e.current_lesson,
                   is_correct |-> was_correct,
                   response_time |-> response_time,
                   difficulty |-> e.current_difficulty])]

\* the counters at the head of get_next_difficulty
CountAnswer(e, was_correct) ==
    IF was_correct
    THEN [e EXCEPT !.questions_in_current_difficulty = @ + 1,
                   !.consecutive_correct = @ + 1,
                   !.consecutive_wrong = 0,
                   !.consecutive_wrong_lesson = 0]
    ELSE [e EXCEPT !.questions_in_current_difficulty = @ + 1,
                   !.consecutive_wrong = @ + 1,
                   !.consecutive_correct = 0,
                   !.consecutive_wrong_lesson = @ + 1]

\* lesson_perf of the current lesson and difficulty after one more answer
UpdatedPerformance(lesson_perf, was_correct, response_time) ==
    [correct |-> IF was_correct THEN lesson_perf.correct + 1 ELSE lesson_perf.correct,
     total |-> lesson_perf.total + 1,
     avg_time |-> (lesson_perf.avg_time * lesson_perf.total + response_time)
                      \div (lesson_perf.total + 1)]

\* "Update lesson performance" in get_next_difficulty
UpdateLessonPerformance(e, was_correct, response_time) ==
    IF e.current_lesson = "" THEN e
    ELSE [e EXCEPT !.lesson_performance[e.current_lesson][e.current_difficulty] =
              UpdatedPerformance(@, was_correct, response_time)]

\* a reset that clears the per-lesson wrong counter as well
ResetDifficultyTracking_AlsoLesson(e) ==
    [e EXCEPT !.questions_in_current_difficulty = 0,
              !.consecutive_correct = 0,
              !.consecutive_wrong = 0,
              !.consecutive_wrong_lesson = 0]

\* AdaptiveEngine._reset_difficulty_tracking()
ResetDifficultyTracking(e) ==
    [e EXCEPT !.questions_in_current_difficulty = 0,
              !.consecutive_correct = 0,
              !.consecutive_wrong = 0]

\* the value get_next_difficulty returns once 2 questions are answered at
\* the current difficulty
RuleDifficulty(current_difficulty, consecutive_correct) ==
    IF current_difficulty = "medium"
    THEN (IF consecutive_correct >= 2 THEN "hard" ELSE "easy")
    ELSE IF current_difficulty = "easy"
    THEN (IF consecutive_correct >= 2 THEN "medium" ELSE "easy")
    ELSE (IF consecutive_correct >= 1 THEN "hard" ELSE "medium")

\* the 2-question rule of get_next_difficulty: the value is returned to
\* main and self.current_difficulty is not assigned
ApplyRule(e) ==
    IF e.questions_in_current_difficulty >= e.target_questions_per_difficulty
          /\ e.current_difficulty \in {"easy", "medium", "hard"}
    THEN [ResetDifficultyTracking(e) EXCEPT
              !.next_difficulty = RuleDifficulty(e.current_difficulty,
                                                 e.consecutive_correct)]
    ELSE [e EXCEPT !.next_difficulty = e.current_difficulty]

\* next_difficulty = engine.get_next_difficulty(was_correct, response_time)
GetNextDifficulty(e, was_correct, response_time) ==
    ApplyRule(UpdateLessonPerformance(CountAnswer(e, was_correct),
                                      was_correct, response_time))

EngineStep(e) ==
    /\ adaptive_engine' = e
    /\ UNCHANGED <<question_pools, active_assessments, min_questions, max_questions,
                   precision_threshold, now, calls, irt_call>>

start_new_lesson(lesson_name) ==
    /\ lesson_name \notin DOMAIN adaptive_engine.lesson_performance
    /\ EngineStep(StartNewLesson(adaptive_engine, lesson_name))

\* main: if engine.should_terminate_lesson(): engine.mark_lesson_terminated()
mark_lesson_terminated ==
    /\ ShouldTerminateLesson(adaptive_engine)
    /\ EngineStep(MarkLessonTerminated(adaptive_engine))

\* main: engine.record_response(response), then engine.get_next_difficulty
get_next_difficulty(was_correct, response_time) ==
    /\ adaptive_engine.current_lesson # ""
    /\ Len(adaptive_engine.performance_history) < MaxAnswers
    /\ EngineStep(GetNextDifficulty(
                      RecordUserResponse(adaptive_engine, was_correct, response_time),
                      was_correct, response_time))

InitEngine ==
    /\ question_pools = <<>>
    /\ active_assessments = <<>>
    /\ min_questions = DefaultMinQuestions
    /\ max_questions = DefaultMaxQuestions
    /\ precision_threshold = DefaultPrecisionThreshold
    /\ now = 1
    /\ calls = <<>>
    /\ irt_call = NoCall
    /\ adaptive_engine = NewEngine

NextEngine ==
    \/ \E lesson_name \in Lessons : start_new_lesson(lesson_name)
    \/ mark_lesson_terminated
    \/ \E was_correct \in BOOLEAN, response_time \in AnswerTimes :
          get_next_difficulty(was_correct, response_time)

SpecEngine == InitEngine /\ [][NextEngine]_vars

\* the answers of the current lesson, oldest first
RECURSIVE LessonAnswers(_, _, _)
LessonAnswers(history, lesson_name, i) ==
    IF i > Len(history) THEN <<>>
    ELSE IF history[i].lesson_name = lesson_name
    THEN <<history[i]>> \o LessonAnswers(history, lesson_name, i + 1)
    ELSE LessonAnswers(history, lesson_name, i + 1)

CurrentAnswers ==
    LessonAnswers(adaptive_engine.performance_history, adaptive_engine.current_lesson, 1)

\* the last two answers of the current lesson closed a pair at `difficulty`
PairAt(answers, difficulty) ==
    /\ Len(answers) >= 2
    /\ Len(answers) % 2 = 0
    /\ answers[Len(answers)].difficulty = difficulty
    /\ answers[Len(answers) - 1].difficulty = difficulty

Corrects(answers) ==
    (IF answers[Len(answers)].is_correct THEN 1 ELSE 0)
        + (IF answers[Len(answers) - 1].is_correct THEN 1 ELSE 0)

\* C29: the 2-question rule sets the difficulty used for the next
\* question: after two answers at medium within a lesson current_difficulty
\* is hard when both were correct and easy otherwise; after two correct
\* answers at easy it is medium; after two answers at hard with no correct
\* answer it is medium.
C29_RuleSetsCurrentDifficulty ==
    /\ PairAt(CurrentAnswers, "medium")
          => adaptive_engine.current_difficulty
                 = (IF Corrects(CurrentAnswers) = 2 THEN "hard" ELSE "easy")
    /\ (PairAt(CurrentAnswers, "easy") /\ Corrects(CurrentAnswers) = 2)
          => adaptive_engine.current_difficulty = "medium"
    /\ (PairAt(CurrentAnswers, "hard") /\ Corrects(CurrentAnswers) = 0)
          => adaptive_engine.current_difficulty = "medium"

\* the value returned after a pair of answers at medium follows the rule
C29_ReturnedValueFollowsRule ==
    PairAt(CurrentAnswers, "medium")
    => adaptive_engine.next_difficulty
           = (IF Corrects(CurrentAnswers) = 2 THEN "hard" ELSE "easy")

\* current_difficulty is "medium" in every state
C29_DifficultyNeverMoves == adaptive_engine.current_difficulty = "medium"

\* the two most recent answers of the current lesson were both wrong
LastTwoWrong(answers) ==
    /\ Len(answers) >= 2
    /\ ~answers[Len(answers)].is_correct
    /\ ~answers[Len(answers) - 1].is_correct

\* the number of wrong answers at the end of the answers 1 .. n
RECURSIVE TrailingWrong(_, _)
TrailingWrong(answers, n) ==
    IF n = 0 \/ answers[n].is_correct THEN 0 ELSE 1 + TrailingWrong(answers, n - 1)

\* C30: should_terminate_lesson() is true exactly when the two most recent
\* answers of the current lesson were both wrong: the per-lesson wrong
\* counter grows by 1 on each wrong answer, is reset to 0 by a correct
\* answer and by start_new_lesson, and is not reset when the 2-question rule
\* resets the difficulty counters.
C30_TerminatesOnTwoWrong ==
    /\ ShouldTerminateLesson(adaptive_engine) <=> LastTwoWrong(CurrentAnswers)
    /\ adaptive_engine.consecutive_wrong_lesson
          = TrailingWrong(CurrentAnswers, Len(CurrentAnswers))

\* three wrong answers in a lesson: the 2-question rule has reset the
\* difficulty counters after the second, the lesson counter stands at 3
C30_CounterSurvivesReset ==
    /\ Len(CurrentAnswers) = 3
    /\ adaptive_engine.consecutive_wrong_lesson = 3
    /\ adaptive_engine.consecutive_wrong = 1
    /\ ShouldTerminateLesson(adaptive_engine)

====
